---- MODULE Spec2Model ----
(***************************************************************************)
(* A model of js/webgl-background.js: the FluidAnimation class (a WebGL    *)
(* "stable fluids" background) and the page callbacks that drive it.       *)
(*                                                                         *)
(* JavaScript runs every callback to completion, so each handler           *)
(* (constructor, update, an event listener) is one action.  The WebGL      *)
(* context is modelled by the state its calls change: the current program, *)
(* the texture bound to each texture unit, the sampler uniforms of each    *)
(* program, the bound framebuffer and, for every texture, which pass wrote *)
(* it last.  `log` is the sequence of calls and draw passes issued by the  *)
(* most recent handler.                                                    *)
(*                                                                         *)
(* Units: time is in milliseconds (dt = 16 stands for 0.016 s).            *)
(***************************************************************************)
EXTENDS Integers, Sequences, FiniteSets, TLC

VARIABLES
  pc,      \* "loaded": no instance yet; then how new FluidAnimation(canvas) ended:
           \* "nogl" (returned early), "aborted" (threw before the listeners were
           \* added), "stalled" (threw after), "constructed"
  host,    \* what the browser gives: [ctx2d: does getContext('2d') return a context]
  this,    \* the fields of the FluidAnimation instance
  gl,      \* the WebGL context's binding state
  tex,     \* texture id -> the program that wrote it last ("zero": cleared at creation)
  raf,     \* number of pending requestAnimationFrame callbacks
  timer,   \* the setTimeout of initFluidAnimation: "none" | "pending" | "fired"
  moves,   \* history: move events delivered since the last update(), up to MaxMoves
  log,     \* calls and passes of the most recent handler
  field    \* the texels of the textures a shader pass is applied to, where the
           \* arithmetic of the shaders is studied (SpecShaders)

vars == <<pc, host, this, gl, tex, raf, timer, moves, log, field>>

----------------------------------------------------------------------------
(* Bounds of the model *)

MaxIters == 2          \* PRESSURE_ITERATIONS values an external controller may set: 0..MaxIters
MaxAllocs == 4         \* initFramebuffers runs at most this many times
NumParticles == 1      \* particles modelled (the page creates 1000)
MaxElapsed == 17       \* largest wall-clock gap between two ticks, ms
MaxMoves == 2          \* move events counted between two ticks
MaxResizes == 2        \* resizes in the life of the particle that is followed

(* Program constants *)

TEXTURE_DOWNSAMPLE == 1
DENSITY_DISSIPATION == 98      \* 0.98, in hundredths
VELOCITY_DISSIPATION == 99     \* 0.99, in hundredths
PRESSURE_DISSIPATION == 80     \* 0.8, in hundredths
PRESSURE_ITERATIONS == 25
CURL == 30
BLOOM_ITERATIONS == 8
BLOOM_RESOLUTION == 256
DtCeiling == 16
DefaultCanvasWidth == 300
DefaultCanvasHeight == 150
InitialSplats == 5
SPLAT_RADIUS2 == 1             \* 2 * SPLAT_RADIUS
SPLAT_FORCE == 6000
BLOOM_THRESHOLD == 6000        \* 0.6, in ten-thousandths
BLOOM_SOFT_KNEE == 7000        \* 0.7, in ten-thousandths
MaxByte == 255                 \* a channel of an UNSIGNED_BYTE texture
Scale == 10000                 \* fractions are in ten-thousandths: 0.0001 is 1
Log2E == 14427                 \* log2(e), in ten-thousandths
FieldSize == 2                 \* width and height of the textures whose texels are modelled
MinParticleAge == 50           \* maxAge = 50 + Math.random() * 100
ParticleAgeSpan == 100

Programs ==
  {"clear", "display", "advection", "divergence", "curl", "vorticity", "pressure",
   "gradientSubtract", "splat", "bloomPrefilter", "bloomBlur", "bloomFinal"}

(* The sampler uniforms each fragment shader declares. *)
SamplersOf(prog) ==
  CASE prog = "clear" -> {"uTexture"}
    [] prog = "display" -> {"uTexture"}
    [] prog = "advection" -> {"uVelocity", "uSource"}
    [] prog = "divergence" -> {"uVelocity"}
    [] prog = "curl" -> {"uVelocity"}
    [] prog = "vorticity" -> {"uVelocity", "uCurl"}
    [] prog = "pressure" -> {"uPressure", "uDivergence"}
    [] prog = "gradientSubtract" -> {"uPressure", "uVelocity"}
    [] prog = "splat" -> {"uTarget"}
    [] prog = "bloomPrefilter" -> {"uTexture"}
    [] prog = "bloomBlur" -> {"uTexture"}
    [] prog = "bloomFinal" -> {"uTexture", "uBloom"}

SamplerNames ==
  {"uTexture", "uVelocity", "uSource", "uCurl", "uPressure", "uDivergence", "uTarget", "uBloom"}

(* The float uniforms of step(): dt in milliseconds, dissipation and value in
   hundredths, curl as it is; the two components of the blur's direction. *)
FloatNames == {"dt", "dissipation", "value", "curl", "directionX", "directionY"}

Screen == <<0, "screen", 0>>     \* gl.bindFramebuffer(gl.FRAMEBUFFER, null)
NoId == <<0, "none", 0>>         \* nothing bound / field not assigned

Min(a, b) == IF a < b THEN a ELSE b

RECURSIVE Pow2(_)
Pow2(n) == IF n = 0 THEN 1 ELSE 2 * Pow2(n - 1)

(* a >> i: an arithmetic shift of the 32-bit integer a, which is the floor of
   a / 2^i (the sizes shifted here are below 2^31) *)
Shr(a, i) == a \div Pow2(i)

----------------------------------------------------------------------------
(* A handler runs on a machine m = [this, gl, tex, log, raf, moves, exc, host,
   listeners]: the state, the log of its calls, exc = an exception is
   propagating. *)

(* Statement sequencing: F runs on the machine that m leaves, unless an
   exception is propagating. *)
Then(m, F(_)) == CHOOSE r \in {IF a.exc THEN a ELSE F(a) : a \in {m}} : TRUE

----------------------------------------------------------------------------
(* Framebuffer objects *)

NoFBO == [id |-> NoId, width |-> 0, height |-> 0, texType |-> "none", texFilter |-> "none"]

NoDoubleFBO ==
  [width |-> 0, height |-> 0, texelSizeX |-> <<1, 0>>, texelSizeY |-> <<1, 0>>,
   read |-> NoFBO, write |-> NoFBO]

(* createFBO: a new texture of w x h, attached to a new framebuffer and cleared.
   It leaves the texture bound to unit 0 and the framebuffer bound. *)
createFBO(m, id, w, h, texType, texFilter) ==
  [m EXCEPT !.gl.units[0] = id,
            !.gl.framebuffer = id,
            !.tex = [i \in (DOMAIN m.tex) \cup {id} |-> IF i = id THEN "zero" ELSE m.tex[i]]]

FBO(id, w, h, texType, texFilter) ==
  [id |-> id, width |-> w, height |-> h, texType |-> texType, texFilter |-> texFilter]

(* createDoubleFBO: two FBOs of the same size, and the texel size (1/w, 1/h),
   kept as the pair <<numerator, denominator>>. *)
DoubleFBO(g, name, w, h, texType, texFilter) ==
  [width |-> w, height |-> h,
   texelSizeX |-> <<1, w>>, texelSizeY |-> <<1, h>>,
   read |-> FBO(<<g, name, 1>>, w, h, texType, texFilter),
   write |-> FBO(<<g, name, 2>>, w, h, texType, texFilter)]

createDoubleFBO(m, g, name, w, h, texType, texFilter) ==
  LET fbo2(a) == createFBO(a, <<g, name, 2>>, w, h, texType, texFilter)
  IN  Then(createFBO(m, <<g, name, 1>>, w, h, texType, texFilter), fbo2)

(* a swap without its temporary: read and write end on the same buffer *)
swapNoTemp(db) == [db EXCEPT !.read = db.write]

(* a swap that exchanges nothing *)
swapNothing(db) == db

swap(db) == [db EXCEPT !.read = db.write, !.write = db.read]

(* a resolution taken from the canvas element's default size *)
getResolutionDefault(canvas, scale) ==
  [width |-> DefaultCanvasWidth * scale, height |-> DefaultCanvasHeight * scale]

(* Math.round of an integer product is the product *)
getResolution(canvas, scale) ==
  [width |-> canvas.width * scale, height |-> canvas.height * scale]

----------------------------------------------------------------------------
(* The WebGL calls the class makes *)

Emit(m, e) == [m EXCEPT !.log = Append(m.log, e)]

(* gl.useProgram(this.programs[prog]); a program that failed to build is null *)
useProgram(m, prog) ==
  [m EXCEPT !.gl.program = IF m.this.programs[prog] THEN prog ELSE "null"]

(* gl.uniform1i(gl.getUniformLocation(this.programs[prog], name), fbo.attach(unit)):
   attach binds the texture to the unit; the uniform of a null program has no
   location and the call is ignored. *)
uniformTex(m, prog, name, fbo, unit) ==
  [m EXCEPT !.gl.units[unit] = fbo.id,
            !.gl.samplers[prog][name] =
               IF m.this.programs[prog] /\ m.gl.program = prog THEN unit ELSE @]

(* gl.uniform1f(gl.getUniformLocation(this.programs[prog], name), v) *)
uniform1f(m, prog, name, v) ==
  [m EXCEPT !.gl.floats[prog][name] =
               IF m.this.programs[prog] /\ m.gl.program = prog THEN v ELSE @]

(* gl.uniform2f(gl.getUniformLocation(this.programs[prog], name), x, y): nameX and
   nameY are the two components of the uniform *)
uniform2f(m, prog, nameX, nameY, x, y) ==
  [m EXCEPT !.gl.floats[prog][nameX] =
               IF m.this.programs[prog] /\ m.gl.program = prog THEN x ELSE @,
            !.gl.floats[prog][nameY] =
               IF m.this.programs[prog] /\ m.gl.program = prog THEN y ELSE @]

bindFramebuffer(m, id) == [m EXCEPT !.gl.framebuffer = id]

(* What the current program samples: for each sampler it declares, the texture
   bound to the unit the sampler holds. *)
Sampled(g) ==
  {[u |-> n, id |-> g.units[g.samplers[g.program][n]]] : n \in SamplersOf(g.program)}

(* For each texture the current program samples, the pass that wrote it last:
   the content the draw call reads. *)
Writers(g, t) ==
  {[u |-> r.u, by |-> t[r.id]] : r \in {q \in Sampled(g) : q.id \in DOMAIN t}}

(* gl.drawArrays(gl.TRIANGLE_FAN, 0, 4) issued by method fn: one full pass over
   the bound framebuffer.  Without a valid current program nothing is drawn. *)
drawArrays(m, fn) ==
  IF m.gl.program = "null"
  THEN Emit(m, [kind |-> "nodraw", fn |-> fn, target |-> m.gl.framebuffer])
  ELSE LET t == m.gl.framebuffer
           e == [kind |-> "pass", fn |-> fn, prog |-> m.gl.program,
                 reads |-> Sampled(m.gl), floats |-> m.gl.floats[m.gl.program],
                 wrote |-> Writers(m.gl, m.tex), target |-> t]
       IN  [Emit(m, e) EXCEPT
              !.tex = [i \in DOMAIN m.tex |-> IF i = t THEN m.gl.program ELSE m.tex[i]]]

----------------------------------------------------------------------------
(* initFramebuffers *)

(* a pyramid that goes on below 2 texels *)
RECURSIVE BloomLevelsUntruncated(_, _, _, _)
BloomLevelsUntruncated(bw, bh, n, i) ==
  IF i >= n
  THEN <<>>
  ELSE <<[width |-> Shr(bw, i), height |-> Shr(bh, i)]>>
         \o BloomLevelsUntruncated(bw, bh, n, i + 1)

(* The pyramid loop, lines 442-450: for i < n = config.BLOOM_ITERATIONS, stop at
   the first level whose width or height is below 2. *)
RECURSIVE BloomLevels(_, _, _, _)
BloomLevels(bw, bh, n, i) ==
  IF i >= n \/ Shr(bw, i) < 2 \/ Shr(bh, i) < 2
  THEN <<>>
  ELSE <<[width |-> Shr(bw, i), height |-> Shr(bh, i)]>> \o BloomLevels(bw, bh, n, i + 1)

RECURSIVE createLevels(_, _, _, _)
createLevels(m, g, levels, i) ==
  IF i > Len(levels) THEN m
  ELSE Then(createFBO(m, <<g, "pyramid", i>>, levels[i].width, levels[i].height,
                      "RGBA", "LINEAR"),
            LAMBDA a : createLevels(a, g, levels, i + 1))

LiveIds(t) ==
  {t.dye.read.id, t.dye.write.id, t.velocity.read.id, t.velocity.write.id,
   t.pressure.read.id, t.pressure.write.id, t.divergence.id, t.curl.id, t.bloom.id}
  \cup {t.bloomFramebuffers[i].id : i \in DOMAIN t.bloomFramebuffers}

(* a format that ignores the extension found *)
dyeTexTypeFixed(ext) == "RGBA"

(* the format and the filter of dye and velocity, lines 427-428 *)
dyeTexType(ext) == IF ext.formatRGBA THEN "RGBA" ELSE "RGB"

dyeTexFilter(ext) == IF ext.supportLinearFiltering THEN "LINEAR" ELSE "NEAREST"

initFramebuffers(m) ==
  LET t == m.this
      g == t.gen + 1
      simRes == getResolution(t.canvas, TEXTURE_DOWNSAMPLE)
      dyeRes == getResolution(t.canvas, TEXTURE_DOWNSAMPLE)
      texType == dyeTexType(t.ext)
      texFilter == dyeTexFilter(t.ext)
      bloomRes == getResolution(t.canvas, t.config.BLOOM_RESOLUTION)
      levels == BloomLevels(bloomRes.width, bloomRes.height, t.config.BLOOM_ITERATIONS, 0)
      \* the GL objects made, in the order of the code
      mkDye(a) == createDoubleFBO(a, g, "dye", dyeRes.width, dyeRes.height, texType, texFilter)
      mkVelocity(a) ==
        createDoubleFBO(a, g, "velocity", simRes.width, simRes.height, texType, texFilter)
      mkDivergence(a) ==
        createFBO(a, <<g, "divergence", 1>>, simRes.width, simRes.height, "RGBA", "NEAREST")
      mkCurl(a) == createFBO(a, <<g, "curl", 1>>, simRes.width, simRes.height, "RGBA", "NEAREST")
      mkPressure(a) ==
        createDoubleFBO(a, g, "pressure", simRes.width, simRes.height, "RGBA", "NEAREST")
      mkBloom(a) ==
        IF t.config.BLOOM
        THEN createFBO(a, <<g, "bloom", 1>>, bloomRes.width, bloomRes.height, "RGBA", "LINEAR")
        ELSE a
      mkPyramid(a) == IF t.config.BLOOM THEN createLevels(a, g, levels, 1) ELSE a
      \* the fields of the instance afterwards
      t1 == [t EXCEPT
               !.gen = g,
               !.dye = DoubleFBO(g, "dye", dyeRes.width, dyeRes.height, texType, texFilter),
               !.velocity = DoubleFBO(g, "velocity", simRes.width, simRes.height, texType, texFilter),
               !.divergence = FBO(<<g, "divergence", 1>>, simRes.width, simRes.height, "RGBA", "NEAREST"),
               !.curl = FBO(<<g, "curl", 1>>, simRes.width, simRes.height, "RGBA", "NEAREST"),
               !.pressure = DoubleFBO(g, "pressure", simRes.width, simRes.height, "RGBA", "NEAREST"),
               !.bloom = IF t.config.BLOOM
                         THEN FBO(<<g, "bloom", 1>>, bloomRes.width, bloomRes.height, "RGBA", "LINEAR")
                         ELSE @,
               !.bloomFramebuffers =
                  IF t.config.BLOOM
                  THEN [i \in 1..Len(levels) |->
                          FBO(<<g, "pyramid", i>>, levels[i].width, levels[i].height, "RGBA", "LINEAR")]
                  ELSE @]
      assign(a) ==
        [Emit(a, [kind |-> "initFramebuffers", gen |-> g]) EXCEPT
           !.this = t1,
           \* the replaced objects are garbage: only the live textures are kept
           !.tex = [i \in LiveIds(t1) \cap DOMAIN a.tex |-> a.tex[i]]]
  IN  Then(Then(Then(Then(Then(Then(Then(Then(
        m, mkDye), mkVelocity), mkDivergence), mkCurl), mkPressure), mkBloom), mkPyramid),
        assign)

(* resizeCanvas: the canvas takes the window's size, all fields are reallocated *)
resizeCanvas(m, win) ==
  Then([Emit(m, [kind |-> "resizeCanvas", win |-> win])
          EXCEPT !.this.canvas = [width |-> win[1], height |-> win[2]]],
       initFramebuffers)

----------------------------------------------------------------------------
(* The methods of FluidAnimation *)

(* velocity is never swapped *)
swapVelocityMissing(m) == m

(* dye is never swapped *)
swapDyeMissing(m) == m

(* pressure is never swapped *)
swapPressureMissing(m) == m

(* this.dye.swap(), this.velocity.swap(), this.pressure.swap() *)
swapDye(m) ==
  [m EXCEPT !.this.dye = swap(@), !.log = Append(@, [kind |-> "swap", field |-> "dye"])]

swapVelocity(m) ==
  [m EXCEPT !.this.velocity = swap(@),
            !.log = Append(@, [kind |-> "swap", field |-> "velocity"])]

swapPressure(m) ==
  [m EXCEPT !.this.pressure = swap(@),
            !.log = Append(@, [kind |-> "swap", field |-> "pressure"])]

(* splat(x, y, color, force): force is kept as force4 = 4 * force^2, so that the
   pointer's speed 0.5 * sqrt(dx^2 + dy^2) is the integer dx^2 + dy^2. *)
splat(m, origin, x, y, force4) ==
  LET enter(a) ==
        Emit(a, [kind |-> "splat", origin |-> origin, x |-> x, y |-> y, force4 |-> force4])
      use(a) == useProgram(a, "splat")
      draw(a) == drawArrays(a, "splat")
      \* add color dye
      dyeTarget(a) == uniformTex(a, "splat", "uTarget", a.this.dye.read, 0)
      dyeBind(a) == bindFramebuffer(a, a.this.dye.write.id)
      \* add velocity
      velTarget(a) == uniformTex(a, "splat", "uTarget", a.this.velocity.read, 0)
      velBind(a) == bindFramebuffer(a, a.this.velocity.write.id)
  IN  Then(Then(Then(Then(Then(Then(Then(Then(Then(Then(Then(
        m, enter),
        use), dyeTarget), dyeBind), draw), swapDye),
        use), velTarget), velBind), draw), swapVelocity)

(* step(), lines 722-731 *)
advectVelocity(m, dt) ==
  LET use(a) == useProgram(a, "advection")
      uVelocity(a) == uniformTex(a, "advection", "uVelocity", a.this.velocity.read, 0)
      uSource(a) == uniformTex(a, "advection", "uSource", a.this.velocity.read, 1)
      uDt(a) == uniform1f(a, "advection", "dt", dt)
      dissipation(a) ==
        uniform1f(a, "advection", "dissipation", a.this.config.VELOCITY_DISSIPATION)
      bind(a) == bindFramebuffer(a, a.this.velocity.write.id)
      draw(a) == drawArrays(a, "step")
  IN  Then(Then(Then(Then(Then(Then(Then(Then(
        m, use), uVelocity), uSource), uDt), dissipation), bind), draw), swapVelocity)

(* step(), lines 733-738 *)
computeCurl(m) ==
  LET use(a) == useProgram(a, "curl")
      uVelocity(a) == uniformTex(a, "curl", "uVelocity", a.this.velocity.read, 0)
      bind(a) == bindFramebuffer(a, a.this.curl.id)
      draw(a) == drawArrays(a, "step")
  IN  Then(Then(Then(Then(m, use), uVelocity), bind), draw)

(* step(), lines 740-749 *)
applyVorticity(m, dt) ==
  LET use(a) == useProgram(a, "vorticity")
      uVelocity(a) == uniformTex(a, "vorticity", "uVelocity", a.this.velocity.read, 0)
      uCurl(a) == uniformTex(a, "vorticity", "uCurl", a.this.curl, 1)
      curl(a) == uniform1f(a, "vorticity", "curl", a.this.config.CURL)
      uDt(a) == uniform1f(a, "vorticity", "dt", dt)
      bind(a) == bindFramebuffer(a, a.this.velocity.write.id)
      draw(a) == drawArrays(a, "step")
  IN  Then(Then(Then(Then(Then(Then(Then(Then(
        m, use), uVelocity), uCurl), curl), uDt), bind), draw), swapVelocity)

(* step(), lines 751-756 *)
computeDivergence(m) ==
  LET use(a) == useProgram(a, "divergence")
      uVelocity(a) == uniformTex(a, "divergence", "uVelocity", a.this.velocity.read, 0)
      bind(a) == bindFramebuffer(a, a.this.divergence.id)
      draw(a) == drawArrays(a, "step")
  IN  Then(Then(Then(Then(m, use), uVelocity), bind), draw)

(* a clear pass that leaves its output in pressure.write *)
clearPressureUnswapped(m) ==
  LET use(a) == useProgram(a, "clear")
      uTexture(a) == uniformTex(a, "clear", "uTexture", a.this.pressure.read, 0)
      value(a) == uniform1f(a, "clear", "value", a.this.config.PRESSURE_DISSIPATION)
      bind(a) == bindFramebuffer(a, a.this.pressure.write.id)
      draw(a) == drawArrays(a, "step")
  IN  Then(Then(Then(Then(Then(m, use), uTexture), value), bind), draw)

(* step(), lines 758-764 *)
clearPressure(m) ==
  LET use(a) == useProgram(a, "clear")
      uTexture(a) == uniformTex(a, "clear", "uTexture", a.this.pressure.read, 0)
      value(a) == uniform1f(a, "clear", "value", a.this.config.PRESSURE_DISSIPATION)
      bind(a) == bindFramebuffer(a, a.this.pressure.write.id)
      draw(a) == drawArrays(a, "step")
  IN  Then(Then(Then(Then(Then(Then(m, use), uTexture), value), bind), draw), swapPressure)

(* a Jacobi loop whose bound is inclusive: one iteration too many *)
RECURSIVE solvePressureInclusive(_, _)
solvePressureInclusive(m, i) ==
  LET uPressure(a) == uniformTex(a, "pressure", "uPressure", a.this.pressure.read, 1)
      bind(a) == bindFramebuffer(a, a.this.pressure.write.id)
      draw(a) == drawArrays(a, "step")
      again(a) == solvePressureInclusive(a, i - 1)
  IN  IF i < 0 THEN m
      ELSE Then(Then(Then(Then(Then(m, uPressure), bind), draw), swapPressure), again)

(* step(), lines 771-776, the Jacobi loop: i counts the iterations still to run *)
RECURSIVE solvePressure(_, _)
solvePressure(m, i) ==
  LET uPressure(a) == uniformTex(a, "pressure", "uPressure", a.this.pressure.read, 1)
      bind(a) == bindFramebuffer(a, a.this.pressure.write.id)
      draw(a) == drawArrays(a, "step")
      again(a) == solvePressure(a, i - 1)
  IN  IF i <= 0 THEN m
      ELSE Then(Then(Then(Then(Then(m, uPressure), bind), draw), swapPressure), again)

(* step(), lines 766-776 *)
projectPressure(m) ==
  LET use(a) == useProgram(a, "pressure")
      uDivergence(a) == uniformTex(a, "pressure", "uDivergence", a.this.divergence, 0)
      loop(a) == solvePressure(a, a.this.config.PRESSURE_ITERATIONS)
  IN  Then(Then(Then(m, use), uDivergence), loop)

(* step(), lines 778-785 *)
subtractGradient(m) ==
  LET use(a) == useProgram(a, "gradientSubtract")
      uPressure(a) == uniformTex(a, "gradientSubtract", "uPressure", a.this.pressure.read, 0)
      uVelocity(a) == uniformTex(a, "gradientSubtract", "uVelocity", a.this.velocity.read, 1)
      bind(a) == bindFramebuffer(a, a.this.velocity.write.id)
      draw(a) == drawArrays(a, "step")
  IN  Then(Then(Then(Then(Then(Then(m, use), uPressure), uVelocity), bind), draw), swapVelocity)

(* a dye advection that decays dye as velocity is decayed *)
advectDyeAsVelocity(m, dt) ==
  LET use(a) == useProgram(a, "advection")
      uVelocity(a) == uniformTex(a, "advection", "uVelocity", a.this.velocity.read, 0)
      uSource(a) == uniformTex(a, "advection", "uSource", a.this.dye.read, 1)
      uDt(a) == uniform1f(a, "advection", "dt", dt)
      dissipation(a) ==
        uniform1f(a, "advection", "dissipation", a.this.config.VELOCITY_DISSIPATION)
      bind(a) == bindFramebuffer(a, a.this.dye.write.id)
      draw(a) == drawArrays(a, "step")
  IN  Then(Then(Then(Then(Then(Then(Then(Then(
        m, use), uVelocity), uSource), uDt), dissipation), bind), draw), swapDye)

(* step(), lines 787-797 *)
advectDye(m, dt) ==
  LET use(a) == useProgram(a, "advection")
      uVelocity(a) == uniformTex(a, "advection", "uVelocity", a.this.velocity.read, 0)
      uSource(a) == uniformTex(a, "advection", "uSource", a.this.dye.read, 1)
      uDt(a) == uniform1f(a, "advection", "dt", dt)
      dissipation(a) ==
        uniform1f(a, "advection", "dissipation", a.this.config.DENSITY_DISSIPATION)
      bind(a) == bindFramebuffer(a, a.this.dye.write.id)
      draw(a) == drawArrays(a, "step")
  IN  Then(Then(Then(Then(Then(Then(Then(Then(
        m, use), uVelocity), uSource), uDt), dissipation), bind), draw), swapDye)

step(m, dt) ==
  LET velocity(a) == advectVelocity(a, dt)
      vorticity(a) == applyVorticity(a, dt)
      dye(a) == advectDye(a, dt)
  IN  Then(Then(Then(Then(Then(Then(Then(Then(
        Emit(m, [kind |-> "step", dt |-> dt]),
        velocity), computeCurl), vorticity), computeDivergence), clearPressure),
        projectPressure), subtractGradient), dye)

(* particles that sample the buffer velocity is written to next *)
RECURSIVE updateParticlesStale(_, _)
updateParticlesStale(m, i) ==
  LET bind(a) == bindFramebuffer(a, a.this.velocity.write.id)
      readPixels(a) == Emit(a, [kind |-> "readPixels", id |-> a.gl.framebuffer])
      next(a) == updateParticlesStale(a, i + 1)
  IN  IF i > NumParticles THEN m
      ELSE Then(Then(Then(m, bind), readPixels), next)

(* updateParticles: one readPixels of velocity.read per particle *)
RECURSIVE updateParticles(_, _)
updateParticles(m, i) ==
  LET bind(a) == bindFramebuffer(a, a.this.velocity.read.id)
      readPixels(a) == Emit(a, [kind |-> "readPixels", id |-> a.gl.framebuffer])
      next(a) == updateParticles(a, i + 1)
  IN  IF i > NumParticles THEN m
      ELSE Then(Then(Then(m, bind), readPixels), next)

Throw(m) == [m EXCEPT !.exc = TRUE]

(* a composite written over the bloom buffer *)
compositeTargetBloom(t) == t.bloom

(* line 925: the composite pass is bound to this.dye.write.fbo *)
compositeTarget(t) == t.dye.write

(* a blur through the smallest level of the pyramid *)
blurDestSmallest(t) == t.bloomFramebuffers[Len(t.bloomFramebuffers)]

(* lines 901-902: let source = this.bloom; let dest = this.bloomFramebuffers[0] *)
blurSource(t) == t.bloom

blurDest(t) == t.bloomFramebuffers[1]

(* applyBloom: prefilter -> bloom; horizontal blur bloom -> pyramid level 0;
   vertical blur level 0 -> bloom; composite dye.read + bloom -> dye.write; swap.
   this.bloom.width (line 894) and dest.width (line 908) throw a TypeError when
   the object is undefined. *)
applyBloom(m) ==
  LET enter(a) == Emit(a, [kind |-> "applyBloom"])
      draw(a) == drawArrays(a, "applyBloom")
      \* extract bright areas
      usePrefilter(a) == useProgram(a, "bloomPrefilter")
      preTexture(a) == uniformTex(a, "bloomPrefilter", "uTexture", a.this.dye.read, 0)
      preBind(a) ==
        IF a.this.bloom.id = NoId THEN Throw(a) ELSE bindFramebuffer(a, a.this.bloom.id)
      \* horizontal blur: source = this.bloom, dest = this.bloomFramebuffers[0]
      useBlur(a) == useProgram(a, "bloomBlur")
      horDirection(a) == uniform2f(a, "bloomBlur", "directionX", "directionY", 1, 0)
      horTexture(a) == uniformTex(a, "bloomBlur", "uTexture", blurSource(a.this), 0)
      horBind(a) ==
        IF Len(a.this.bloomFramebuffers) = 0 THEN Throw(a)
        ELSE bindFramebuffer(a, blurDest(a.this).id)
      \* vertical blur
      verDirection(a) == uniform2f(a, "bloomBlur", "directionX", "directionY", 0, 1)
      verTexture(a) == uniformTex(a, "bloomBlur", "uTexture", blurDest(a.this), 0)
      verBind(a) == bindFramebuffer(a, blurSource(a.this).id)
      \* blend bloomed result with original
      useFinal(a) == useProgram(a, "bloomFinal")
      finTexture(a) == uniformTex(a, "bloomFinal", "uTexture", a.this.dye.read, 0)
      finBloom(a) == uniformTex(a, "bloomFinal", "uBloom", a.this.bloom, 1)
      finBind(a) == bindFramebuffer(a, compositeTarget(a.this).id)
  IN  Then(Then(Then(Then(Then(Then(Then(Then(Then(Then(Then(Then(Then(Then(Then(Then(Then(Then(Then(Then(
        m, enter),
        usePrefilter), preTexture), preBind), draw),
        useBlur), horDirection), horTexture), horBind), draw),
        verDirection), verTexture), verBind), draw),
        useFinal), finTexture), finBloom), finBind), draw), swapDye)

(* a render that first brings the fields to the canvas's size *)
renderResizing(m) ==
  LET enter(a) == Emit(a, [kind |-> "render"])
      bloom(a) == IF a.this.config.BLOOM THEN applyBloom(a) ELSE a
      use(a) == useProgram(a, "display")
      uTexture(a) == uniformTex(a, "display", "uTexture", a.this.dye.read, 0)
      bind(a) == bindFramebuffer(a, Screen)
      draw(a) == drawArrays(a, "render")
      overlay(a) == IF ~ a.host.ctx2d THEN Throw(a) ELSE Emit(a, [kind |-> "overlay"])
  IN  Then(Then(Then(Then(Then(Then(Then(Then(
        m, initFramebuffers), enter), bloom), use), uTexture), bind), draw), overlay)

(* render: bloom, then the display pass to the screen, then the particle overlay
   on a 2D context of the same canvas; ctx is null when the host gives no 2D
   context for a canvas that has a WebGL context, and ctx.globalCompositeOperation
   = ... (line 869) then throws. *)
render(m) ==
  LET enter(a) == Emit(a, [kind |-> "render"])
      bloom(a) == IF a.this.config.BLOOM THEN applyBloom(a) ELSE a
      use(a) == useProgram(a, "display")
      uTexture(a) == uniformTex(a, "display", "uTexture", a.this.dye.read, 0)
      bind(a) == bindFramebuffer(a, Screen)
      draw(a) == drawArrays(a, "render")
      overlay(a) == IF ~ a.host.ctx2d THEN Throw(a) ELSE Emit(a, [kind |-> "overlay"])
  IN  Then(Then(Then(Then(Then(Then(Then(
        m, enter), bloom), use), uTexture), bind), draw), overlay)

(* a threshold that the speed 1 passes *)
drainPointerInclusive(m) ==
  LET ptr == m.this.pointer
      speed4 == ptr.dx * ptr.dx + ptr.dy * ptr.dy
      p0 == [m EXCEPT !.this.pointer.moved = FALSE]
  IN  IF ptr.moved
      THEN IF ptr.down /\ speed4 >= 4
           THEN splat(p0, "pointer", ptr.x, ptr.y, speed4)
           ELSE p0
      ELSE m

(* a mailbox whose flag is never reset *)
drainPointerLatched(m) ==
  LET ptr == m.this.pointer
      speed4 == ptr.dx * ptr.dx + ptr.dy * ptr.dy
  IN  IF ptr.moved /\ ptr.down /\ speed4 > 4
      THEN splat(m, "pointer", ptr.x, ptr.y, speed4)
      ELSE m

(* update(), lines 680-693: the pointer mailbox is read once, and its moved flag
   reset; a splat is issued when the pointer is down and fast enough *)
drainPointer(m) ==
  LET ptr == m.this.pointer
      speed4 == ptr.dx * ptr.dx + ptr.dy * ptr.dy
      p0 == [m EXCEPT !.this.pointer.moved = FALSE]
  IN  IF ptr.moved
      THEN IF ptr.down /\ speed4 > 4
           THEN splat(p0, "pointer", ptr.x, ptr.y, speed4)
           ELSE p0
      ELSE m

(* Math.max where Math.min is meant *)
clampDtMax(elapsed) == IF elapsed > DtCeiling THEN elapsed ELSE DtCeiling

(* line 656: dt = Math.min(elapsed / 1000, 0.016), in milliseconds *)
clampDt(elapsed) == Min(elapsed, DtCeiling)

(* update(): in = what the tick reads from outside:
     elapsed = Date.now() - this.lastUpdateTime  (ms)
     audio   = audio is enabled and ready and its level is above 0.4
     random  = Math.random() < 0.01
     pos     = the random position of an audio or random splat
   An exception ends the handler where it is thrown: the frame is then not
   scheduled. *)
update(m, in) ==
  LET dt == clampDt(in.elapsed)
      enter(a) ==
        [Emit(a, [kind |-> "update", elapsed |-> in.elapsed, dt |-> dt, moves |-> a.moves])
           EXCEPT !.moves = 0]
      audio(a) == IF in.audio THEN splat(a, "audio", in.pos[1], in.pos[2], 25) ELSE a
      random(a) == IF in.random THEN splat(a, "random", in.pos[1], in.pos[2], 4) ELSE a
      simulate(a) == step(a, dt)
      particles(a) == updateParticles(a, 1)
      schedule(a) == [Emit(a, [kind |-> "requestAnimationFrame"]) EXCEPT !.raf = @ + 1]
  IN  Then(Then(Then(Then(Then(Then(Then(Then(
        m, enter), audio), drainPointer), random), simulate), particles), render), schedule)

----------------------------------------------------------------------------
(* Construction *)

(* initShaders.  build[p] is how building program p ends: "ok", "compile" (a
   shader of it fails to compile: compileShader logs and returns null) or "link"
   (linking fails: createProgram logs and returns null).  Neither path throws or
   returns early by itself.  strict = the WebGL binding rejects a null object
   argument with a TypeError (attachShader(program, null), getAttribLocation(null,
   ...)); a binding that is not strict records a GL error and carries on. *)
initShaders(m, build, strict) ==
  LET errs == [m EXCEPT !.log = @ \o
                 (IF \E p \in Programs : build[p] = "compile"
                  THEN <<[kind |-> "console.error", what |-> "compile"]>> ELSE <<>>)
                 \o (IF \E p \in Programs : build[p] # "ok"
                     THEN <<[kind |-> "console.error", what |-> "link"]>> ELSE <<>>)]
      made == [errs EXCEPT !.this.programs = [p \in Programs |-> build[p] = "ok"]]
  IN  IF strict /\ \E p \in Programs : build[p] = "compile"
      THEN Throw(errs)                 \* in createProgram: this.programs is never assigned
      ELSE IF strict /\ \E p \in Programs : build[p] # "ok"
      THEN Throw(made)                 \* in the attribute loop
      ELSE useProgram(made, "bloomFinal")   \* the loop ends on the last program

DefaultConfig ==
  [DENSITY_DISSIPATION |-> DENSITY_DISSIPATION,
   VELOCITY_DISSIPATION |-> VELOCITY_DISSIPATION,
   PRESSURE_DISSIPATION |-> PRESSURE_DISSIPATION,
   PRESSURE_ITERATIONS |-> PRESSURE_ITERATIONS,
   CURL |-> CURL,
   PAUSED |-> FALSE,
   BLOOM |-> TRUE,
   BLOOM_ITERATIONS |-> BLOOM_ITERATIONS,
   BLOOM_RESOLUTION |-> BLOOM_RESOLUTION]

NoPointer == [x |-> 0, y |-> 0, dx |-> 0, dy |-> 0, moved |-> FALSE, down |-> FALSE]

(* The constructor.  in = [glOk, ext, build, strict, win, tick]:
   whether getContext gives a WebGL context, the extensions found, how the
   programs build, the window's size, and what the first update() reads. *)
construct(m, in) ==
  LET enter(a) == Emit(a, [kind |-> "constructor"])
      noContext(a) == Emit(a, [kind |-> "console.error", what |-> "WebGL not supported"])
      fields(a) == [a EXCEPT !.this.ext = in.ext,
                             !.this.gl = TRUE,
                             !.this.config = DefaultConfig,
                             !.this.pointer = NoPointer]
      shaders(a) == initShaders(a, in.build, in.strict)
      listeners(a) == [a EXCEPT !.listeners = TRUE]        \* initEventListeners
      resize(a) == resizeCanvas(a, in.win)
      firstUpdate(a) == update(a, in.tick)
  IN  IF ~ in.glOk
      THEN Then(Then(m, enter), noContext)
      ELSE Then(Then(Then(Then(Then(Then(Then(
             m, enter), fields), shaders), initFramebuffers), listeners), resize), firstUpdate)

(* initFluidAnimation's setTimeout callback, lines 981-992: five splats of force
   2.0.  getRandomSplatColor reads this.colorPalettes[this.currentPalette], which
   throws a TypeError on an instance whose constructor returned at line 9. *)
RECURSIVE timerSplats(_, _, _)
timerSplats(m, pos, i) ==
  LET again(a) == timerSplats(a, pos, i + 1)
  IN  IF i > InitialSplats THEN m
      ELSE Then(splat(m, "timer", pos[1], pos[2], 16), again)

(* a callback that finds its colours on any instance *)
initialSplatsUnguarded(m, pos) ==
  LET colors(a) == timerSplats(a, pos, 1)
  IN  Then(Emit(m, [kind |-> "timer"]), colors)

initialSplats(m, pos) ==
  LET colors(a) == IF a.this.gl THEN timerSplats(a, pos, 1) ELSE Throw(a)
  IN  Then(Emit(m, [kind |-> "timer"]), colors)

----------------------------------------------------------------------------
(* The event listeners *)

Moved(m) == [m EXCEPT !.moves = Min(@ + 1, MaxMoves)]

mousemove(m, x, y) ==
  LET e == Moved(Emit(m, [kind |-> "mousemove", x |-> x, y |-> y]))
      a == [e EXCEPT !.this.pointer.moved = TRUE,
                     !.this.pointer.x = x,
                     !.this.pointer.y = y]
  IN  [a EXCEPT !.this.pointer.dx = x - a.this.pointer.x,
                !.this.pointer.dy = y - a.this.pointer.y]

touchmove(m, x, y) ==
  LET e == Moved(Emit(m, [kind |-> "touchmove", x |-> x, y |-> y]))
  IN  [e EXCEPT !.this.pointer.moved = TRUE,
                !.this.pointer.dx = x - e.this.pointer.x,
                !.this.pointer.dy = y - e.this.pointer.y,
                !.this.pointer.x = x,
                !.this.pointer.y = y]

mousedown(m) ==
  LET e == Emit(m, [kind |-> "mousedown"])
      a == [e EXCEPT !.this.pointer.down = TRUE]
  IN  splat(a, "mousedown", a.this.pointer.x, a.this.pointer.y, 4)

touchstart(m, x, y) ==
  LET e == Emit(m, [kind |-> "touchstart", x |-> x, y |-> y])
      a == [e EXCEPT !.this.pointer.down = TRUE,
                     !.this.pointer.x = x,
                     !.this.pointer.y = y]
  IN  splat(a, "touchstart", x, y, 4)

mouseup(m) == [Emit(m, [kind |-> "mouseup"]) EXCEPT !.this.pointer.down = FALSE]

touchend(m) == [Emit(m, [kind |-> "touchend"]) EXCEPT !.this.pointer.down = FALSE]

----------------------------------------------------------------------------
(* The shaders, on the texels of the textures.

   Every texture is UNSIGNED_BYTE (createFBO, line 464): a channel holds a byte
   b, which a shader reads as b / 255; what a pass writes is clamped to [0, 1]
   and rounded to a byte.  A texture of FieldSize x FieldSize texels is the
   sequence of its texels, row by row; a texel is the tuple of its channels.
   The wrap mode is CLAMP_TO_EDGE (lines 462-463) and the passes sample at texel
   centres, so a neighbour outside the texture is the edge texel.  Fractions are
   fixed-point numbers in ten-thousandths, rounded down. *)

NumCells == FieldSize * FieldSize

Max(a, b) == IF a > b THEN a ELSE b

Clamp(x, lo, hi) == IF x < lo THEN lo ELSE IF x > hi THEN hi ELSE x

(* the byte stored for the value num / (den * 255) *)
Store(num, den) == Clamp((2 * num + den) \div (2 * den), 0, MaxByte)

(* F applied to the value of x *)
Apply(x, F(_)) == CHOOSE r \in {F(a) : a \in {x}} : TRUE

CellX(k) == (k - 1) % FieldSize
CellY(k) == (k - 1) \div FieldSize

(* texture2D(f, uv) at the centre of texel (cx, cy) *)
Texel(f, cx, cy) ==
  f[Clamp(cy, 0, FieldSize - 1) * FieldSize + Clamp(cx, 0, FieldSize - 1) + 1]

(* twice the divergence stencil at texel k, in bytes: R.x - L.x + T.y - B.y *)
Stencil(v, k) ==
  Texel(v, CellX(k) + 1, CellY(k))[1] - Texel(v, CellX(k) - 1, CellY(k))[1]
    + Texel(v, CellX(k), CellY(k) + 1)[2] - Texel(v, CellX(k), CellY(k) - 1)[2]

(* divergenceShader: div = 0.5 * (R - L + T - B) *)
divergenceShader(v, k) == <<Store(Stencil(v, k), 2)>>

RECURSIVE divergencePass(_, _)
divergencePass(v, k) ==
  IF k > NumCells THEN << >> ELSE <<divergenceShader(v, k)>> \o divergencePass(v, k + 1)

(* clearShader: value * texture2D(uTexture, vUv), value in hundredths *)
clearShader(p, value, k) == <<Store(value * p[k][1], 100)>>

RECURSIVE clearPass(_, _, _)
clearPass(p, value, k) ==
  IF k > NumCells THEN << >> ELSE <<clearShader(p, value, k)>> \o clearPass(p, value, k + 1)

(* pressureShader: pressure = (L + R + B + T - divergence) * 0.25 *)
pressureShader(p, d, k) ==
  <<Store(Texel(p, CellX(k) - 1, CellY(k))[1] + Texel(p, CellX(k) + 1, CellY(k))[1]
            + Texel(p, CellX(k), CellY(k) - 1)[1] + Texel(p, CellX(k), CellY(k) + 1)[1]
            - d[k][1],
          4)>>

RECURSIVE pressurePass(_, _, _)
pressurePass(p, d, k) ==
  IF k > NumCells THEN << >> ELSE <<pressureShader(p, d, k)>> \o pressurePass(p, d, k + 1)

(* gradientSubtractShader: velocity.xy -= vec2(R - L, T - B) * 0.5 *)
gradientSubtractShader(p, v, k) ==
  <<Store(2 * v[k][1]
            - (Texel(p, CellX(k) + 1, CellY(k))[1] - Texel(p, CellX(k) - 1, CellY(k))[1]),
          2),
    Store(2 * v[k][2]
            - (Texel(p, CellX(k), CellY(k) + 1)[1] - Texel(p, CellX(k), CellY(k) - 1)[1]),
          2),
    0>>

RECURSIVE gradientSubtractPass(_, _, _)
gradientSubtractPass(p, v, k) ==
  IF k > NumCells THEN << >>
  ELSE <<gradientSubtractShader(p, v, k)>> \o gradientSubtractPass(p, v, k + 1)

(* the Jacobi loop of step(), lines 771-776, on the texels: s.p is the pressure,
   s.d the divergence, s.n the number of iterations still to run *)
RECURSIVE jacobi(_)
jacobi(s) ==
  IF s.n <= 0 THEN s.p
  ELSE Apply([p |-> pressurePass(s.p, s.d, 1), d |-> s.d, n |-> s.n - 1], jacobi)

(* The projection of step(), lines 751-785: divergence, clear, n Jacobi passes,
   gradient subtraction; v and p are the texels of velocity.read and
   pressure.read. *)
project(v, p, n) ==
  Apply(divergencePass(v, 1), LAMBDA d :
    Apply(clearPass(p, PRESSURE_DISSIPATION, 1), LAMBDA p0 :
      Apply(jacobi([p |-> p0, d |-> d, n |-> n]), LAMBDA pn :
        [velocity |-> gradientSubtractPass(pn, v, 1), pressure |-> pn, divergence |-> d])))

(* the squared L2 norm of the divergence of v, times 4 * 255^2 *)
RECURSIVE SquaredDivergence(_, _)
SquaredDivergence(v, k) ==
  IF k > NumCells THEN 0
  ELSE Stencil(v, k) * Stencil(v, k) + SquaredDivergence(v, k + 1)

(* applyBloom, lines 887-891: the uniform `curve` *)
prefilterCurve(threshold, softKnee) ==
  LET knee == (threshold * softKnee) \div Scale + 1
  IN  <<threshold - knee, knee * 2, ((Scale * Scale) \div 4) \div knee>>

(* the value a shader reads from a byte *)
Channel(b) == (b * Scale) \div MaxByte

(* bloomPrefilterShader on one texel: curve[1], curve[2], curve[3] are curve.x,
   curve.y, curve.z.  The guard max(brightness, 0.00001) is below the
   resolution; it differs from max(brightness, 0.0001) only where the colour
   is 0. *)
bloomPrefilterShader(color, curve, threshold) ==
  LET brightness == Max(Channel(color[1]), Max(Channel(color[2]), Channel(color[3])))
      clamped == Clamp(brightness - curve[2], 0, curve[3])
      soft == (curve[1] * ((clamped * clamped) \div Scale)) \div Scale
      contribution == (Max(soft, brightness - threshold) * Scale) \div Max(brightness, 1)
  IN  <<Store(((Channel(color[1]) * contribution) \div Scale) * MaxByte, Scale),
        Store(((Channel(color[2]) * contribution) \div Scale) * MaxByte, Scale),
        Store(((Channel(color[3]) * contribution) \div Scale) * MaxByte, Scale)>>

RECURSIVE prefilterPass(_, _, _, _)
prefilterPass(dye, curve, threshold, k) ==
  IF k > NumCells THEN << >>
  ELSE <<bloomPrefilterShader(dye[k], curve, threshold)>>
         \o prefilterPass(dye, curve, threshold, k + 1)

(* exp(-num / den) for num / den >= 0, as 2^(-q) with q = (num / den) * log2(e):
   2^(-q) is taken linear between the powers of two (within 7 %) *)
ExpNeg(num, den) ==
  LET q == (num * Log2E) \div den
  IN  IF q \div Scale > 30 THEN 0
      ELSE (Scale - (q % Scale) \div 2) \div Pow2(q \div Scale)

(* weight * color added to the byte b: weight in ten-thousandths, color in
   hundredths; a product beyond 1 in size is as good as 1, the sum being
   clamped to [0, 1] *)
AddSplat(b, weight, color) ==
  Clamp(b + (Clamp((weight \div 10) * color, -100000, 100000) * MaxByte) \div 100000,
        0, MaxByte)

(* splatShader on texel k: base + exp(-dot(p, p) / radius) * color.
   The point is (x2 / 2, y2 / 2) in canvas pixels, the canvas is FieldSize x
   FieldSize (aspectRatio = 1), the radius is radius2 / 2 and the colour is in
   hundredths; dot(p, p) = d / (4 * FieldSize^2), d the squared distance in half
   texels.  With radius 0 the exponent is -d / 0: minus infinity away from the
   point, where exp gives 0, and 0 / 0 at a texel centred on the point, which is
   no number: nan is the byte such a value is stored as. *)
splatShader(base, k, x2, y2, color, radius2, nan) ==
  LET px == 2 * CellX(k) + 1 - x2
      py == 2 * CellY(k) + 1 - (2 * FieldSize - y2)
      d == px * px + py * py
      weight == IF radius2 = 0 THEN 0
                ELSE ExpNeg(d, 2 * FieldSize * FieldSize * radius2)
  IN  IF radius2 = 0 /\ d = 0
      THEN <<nan, nan, nan>>
      ELSE <<AddSplat(base[k][1], weight, color[1]),
             AddSplat(base[k][2], weight, color[2]),
             AddSplat(base[k][3], weight, color[3])>>

RECURSIVE splatPass(_, _, _, _, _, _, _)
splatPass(base, k, x2, y2, color, radius2, nan) ==
  IF k > NumCells THEN << >>
  ELSE <<splatShader(base, k, x2, y2, color, radius2, nan)>>
         \o splatPass(base, k + 1, x2, y2, color, radius2, nan)

(* splat(x, y, color, force), lines 930-963, on the texels of dye.read and
   velocity.read: the dye pass with radius SPLAT_RADIUS * force, the velocity
   pass with the colour (Math.random() - 0.5) * SPLAT_FORCE * force and radius
   SPLAT_RADIUS; rnd[c] is 2 * (Math.random() - 0.5), rounded to -1, 0 or 1. *)
splatTexels(dye, velocity, x2, y2, color, force, rnd, nan) ==
  [dye |-> splatPass(dye, 1, x2, y2, color, SPLAT_RADIUS2 * force, nan),
   velocity |->
     splatPass(velocity, 1, x2, y2,
               <<rnd[1] * SPLAT_FORCE * force * 50, rnd[2] * SPLAT_FORCE * force * 50, 0>>,
               SPLAT_RADIUS2, nan)]

----------------------------------------------------------------------------
(* The particles of the overlay.  Positions and velocities are in tenths of a
   pixel, so that pixels[0] * 0.1 is the byte itself. *)

(* Math.random() * size, the random number given in ten-thousandths *)
randomCoordinate(rnd, size) == (rnd * size * 10) \div Scale

(* initParticles, lines 514-521, for one particle; rnd = the three random numbers *)
newParticle(canvas, rnd) ==
  [x |-> randomCoordinate(rnd[1], canvas.width),
   y |-> randomCoordinate(rnd[2], canvas.height),
   vx |-> 0, vy |-> 0, age |-> 0,
   maxAge |-> MinParticleAge + (rnd[3] * ParticleAgeSpan) \div Scale]

(* the texel readPixels is asked for, lines 807-815: velocity has the canvas's
   size (TEXTURE_DOWNSAMPLE = 1), so Math.floor(p.x / canvas.width *
   velocity.width) is the whole pixels of p.x *)
sampledTexel(p) == [x |-> p.x \div 10, y |-> p.y \div 10]

(* readPixels leaves the array, which is new and all zero, as it is where the
   texel asked for is outside the framebuffer *)
texelInside(p, canvas) ==
  /\ 0 <= sampledTexel(p).x
  /\ sampledTexel(p).x < canvas.width * TEXTURE_DOWNSAMPLE
  /\ 0 <= sampledTexel(p).y
  /\ sampledTexel(p).y < canvas.height * TEXTURE_DOWNSAMPLE

(* the positions the wrap of lines 830-833 lets be *)
InsideCanvas(p, canvas) ==
  /\ 0 <= p.x
  /\ p.x <= canvas.width * 10
  /\ 0 <= p.y
  /\ p.y <= canvas.height * 10

(* lines 830-833: one wrap at each edge *)
wrap(v, size) ==
  Apply(IF v < 0 THEN v + size * 10 ELSE v,
        LAMBDA u : IF u > size * 10 THEN u - size * 10 ELSE u)

(* the body of the loop of updateParticles, lines 804-845, on particle p;
   pixels = the bytes readPixels finds in the texel, rnd = the random numbers
   of a reset *)
updateParticle(p, canvas, pixels, rnd) ==
  Apply([p EXCEPT !.vx = pixels[1], !.vy = pixels[2],
                  !.x = wrap(p.x + pixels[1], canvas.width),
                  !.y = wrap(p.y + pixels[2], canvas.height),
                  !.age = p.age + 1],
        LAMBDA q : IF q.age > q.maxAge THEN newParticle(canvas, rnd) ELSE q)

----------------------------------------------------------------------------
(* The state machine *)

NoThis ==
  [gl |-> FALSE,
   ext |-> [formatRGBA |-> FALSE, supportLinearFiltering |-> FALSE],
   config |-> DefaultConfig,
   pointer |-> NoPointer,
   programs |-> [p \in Programs |-> FALSE],
   canvas |-> [width |-> DefaultCanvasWidth, height |-> DefaultCanvasHeight],
   gen |-> 0,
   dye |-> NoDoubleFBO, velocity |-> NoDoubleFBO, pressure |-> NoDoubleFBO,
   divergence |-> NoFBO, curl |-> NoFBO, bloom |-> NoFBO,
   bloomFramebuffers |-> <<>>]

NoField == [kind |-> "none"]

NoGL ==
  [program |-> "null",
   units |-> [u \in 0..1 |-> NoId],
   samplers |-> [p \in Programs |-> [n \in SamplerNames |-> 0]],
   floats |-> [p \in Programs |-> [n \in FloatNames |-> 0]],
   framebuffer |-> Screen]

(* The machine a handler starts on: the current state, an empty log. *)
Machine ==
  [this |-> this, gl |-> gl, tex |-> tex, log |-> <<>>, raf |-> raf, moves |-> moves,
   exc |-> FALSE, host |-> host, listeners |-> pc \in {"stalled", "constructed"}]

Commit(m) ==
  /\ this' = m.this
  /\ gl' = m.gl
  /\ tex' = m.tex
  /\ log' = m.log
  /\ raf' = m.raf
  /\ moves' = m.moves
  /\ field' = field

(* Inputs: the values the environment may hand to a handler *)
Elapsed == {-1, 0, 7, DtCeiling, MaxElapsed}
Positions == {<<0, 0>>, <<1, 1>>, <<3, 1>>, <<4, 1>>}
RandomPositions == {<<2, 2>>}
WindowSizes == {<<4, 4>>, <<2, 2>>}
Exts == [formatRGBA : BOOLEAN, supportLinearFiltering : BOOLEAN]
FullExt == [formatRGBA |-> TRUE, supportLinearFiltering |-> TRUE]
AllOk == [p \in Programs |-> "ok"]
Builds == {AllOk} \cup {[AllOk EXCEPT ![p] = k] : p \in {"advection"}, k \in {"compile", "link"}}
Platforms == [glOk : BOOLEAN, ext : Exts, build : Builds, strict : BOOLEAN]
GoodPlatforms == [glOk : {TRUE}, ext : {FullExt}, build : {AllOk}, strict : {TRUE}]
TickInputs(elapsed, audios, randoms) ==
  [elapsed : elapsed, audio : audios, random : randoms, pos : RandomPositions]

Init ==
  /\ pc = "loaded"
  /\ host \in [ctx2d : BOOLEAN]
  /\ this = NoThis
  /\ gl = NoGL
  /\ tex = << >>
  /\ raf = 0
  /\ timer = "none"
  /\ moves = 0
  /\ log = << >>
  /\ field = NoField

(* new FluidAnimation(canvas), on a platform of P, in a window of W, its first
   update() reading one of T *)
Construct(P, W, T) ==
  /\ pc = "loaded"
  /\ \E pl \in P, win \in W, tick \in T :
       \E m \in {construct(Machine, [glOk |-> pl.glOk, ext |-> pl.ext, build |-> pl.build,
                                       strict |-> pl.strict, win |-> win, tick |-> tick])} :
           /\ Commit(m)
           /\ pc' = IF ~ pl.glOk THEN "nogl"
                    ELSE IF m.exc THEN (IF m.listeners THEN "stalled" ELSE "aborted")
                    ELSE "constructed"
           \* setTimeout(..., 100) is reached when the constructor returns
           /\ timer' = IF m.exc THEN "none" ELSE "pending"
  /\ UNCHANGED host

(* the setTimeout callback of initFluidAnimation *)
Timeout(Ps) ==
  /\ timer = "pending"
  /\ \E p \in Ps : \E m \in {initialSplats(Machine, p)} : Commit(m)
  /\ timer' = "fired"
  /\ UNCHANGED <<pc, host>>

(* a frame callback: () => this.update() *)
Tick(T) ==
  /\ raf > 0
  /\ \E in \in T : \E m \in {update([Machine EXCEPT !.raf = @ - 1], in)} : Commit(m)
  /\ UNCHANGED <<pc, host, timer>>

Listening == pc \in {"stalled", "constructed"}

MouseMove(Ps) ==
  /\ Listening
  /\ \E p \in Ps : \E m \in {mousemove(Machine, p[1], p[2])} : Commit(m)
  /\ UNCHANGED <<pc, host, timer>>

TouchMove(Ps) ==
  /\ Listening
  /\ \E p \in Ps : \E m \in {touchmove(Machine, p[1], p[2])} : Commit(m)
  /\ UNCHANGED <<pc, host, timer>>

MouseDown ==
  /\ Listening
  /\ \E m \in {mousedown(Machine)} : Commit(m)
  /\ UNCHANGED <<pc, host, timer>>

TouchStart(Ps) ==
  /\ Listening
  /\ \E p \in Ps : \E m \in {touchstart(Machine, p[1], p[2])} : Commit(m)
  /\ UNCHANGED <<pc, host, timer>>

MouseUp ==
  /\ Listening
  /\ \E m \in {mouseup(Machine)} : Commit(m)
  /\ UNCHANGED <<pc, host, timer>>

TouchEnd ==
  /\ Listening
  /\ \E m \in {touchend(Machine)} : Commit(m)
  /\ UNCHANGED <<pc, host, timer>>

(* window 'resize': () => this.resizeCanvas() *)
Resize(W) ==
  /\ Listening
  /\ this.gen < MaxAllocs
  /\ \E win \in W : \E m \in {resizeCanvas(Machine, win)} : Commit(m)
  /\ UNCHANGED <<pc, host, timer>>

(* An external controller alters the configuration between frames. *)
SetPaused ==
  /\ Listening
  /\ \E b \in BOOLEAN : Commit([Machine EXCEPT !.this.config.PAUSED = b])
  /\ UNCHANGED <<pc, host, timer>>

SetIterations ==
  /\ Listening
  /\ \E n \in 0..MaxIters : Commit([Machine EXCEPT !.this.config.PRESSURE_ITERATIONS = n])
  /\ UNCHANGED <<pc, host, timer>>

SetBloom ==
  /\ Listening
  /\ \E b \in BOOLEAN : Commit([Machine EXCEPT !.this.config.BLOOM = b])
  /\ UNCHANGED <<pc, host, timer>>

SetBloomIterations(N) ==
  /\ Listening
  /\ \E n \in N : Commit([Machine EXCEPT !.this.config.BLOOM_ITERATIONS = n])
  /\ UNCHANGED <<pc, host, timer>>

SetBloomResolution(R) ==
  /\ Listening
  /\ \E r \in R : Commit([Machine EXCEPT !.this.config.BLOOM_RESOLUTION = r])
  /\ UNCHANGED <<pc, host, timer>>

(* Inputs of the shaders: the texels found in velocity.read, pressure.read and
   dye.read, the settings of the bloom, the arguments of a splat.  Pressure is
   all zero when it is created (line 470), and a projection that finds it so
   leaves it so (PressureStaysZero). *)
JacobiCounts == {0, 1, 10, 50}
VelocityBytes == {0, MaxByte}
Velocities == [1..NumCells -> {<<x, y, 0>> : x \in VelocityBytes, y \in VelocityBytes}]
ZeroPressure == [k \in 1..NumCells |-> <<0>>]
DyeTexels == {<<0, 0, 0>>, <<128, 128, 128>>, <<255, 107, 0>>}
Dyes == [1..NumCells -> DyeTexels]
Thresholds == {BLOOM_THRESHOLD, 9000}
SoftKnees == {BLOOM_SOFT_KNEE, 1000}
SplatPoints == {1, 2}          \* twice the coordinate: a texel centre, a texel corner
SplatForces == {0, 1}
SplatColors == {<<58, 0, 83>>, <<100, 42, 0>>}     \* colorPalettes, in hundredths
SplatRandoms == {<<-1, 1>>, <<1, 0>>}
NaNBytes == {0, MaxByte}

FieldInputs ==
  {[kind |-> "velocity", velocity |-> v, pressure |-> ZeroPressure] : v \in Velocities}
  \cup {[kind |-> "dye", dye |-> d] : d \in Dyes}
  \cup {[kind |-> "fields", dye |-> [k \in 1..NumCells |-> t],
         velocity |-> [k \in 1..NumCells |-> <<b, b, 0>>]] :
          t \in DyeTexels, b \in {0, 128}}

InitShaders ==
  /\ pc = "loaded"
  /\ host = [ctx2d |-> TRUE]
  /\ this = NoThis
  /\ gl = NoGL
  /\ tex = << >>
  /\ raf = 0
  /\ timer = "none"
  /\ moves = 0
  /\ log = << >>
  /\ field \in FieldInputs

(* the projection of one step, with n Jacobi iterations, on the texels of
   velocity and pressure; norms[c] is the squared divergence the same projection
   leaves when it runs c iterations *)
ProjectField(N) ==
  /\ field.kind = "velocity"
  /\ \E n \in N : \E r \in {project(field.velocity, field.pressure, n)} :
       field' = [kind |-> "projected", n |-> n, before |-> field.velocity,
                 velocity |-> r.velocity, pressure |-> r.pressure,
                 norms |-> [c \in N |->
                              Apply(project(field.velocity, field.pressure, c).velocity,
                                    LAMBDA w : SquaredDivergence(w, 1))]]
  /\ UNCHANGED <<pc, host, this, gl, tex, raf, timer, moves, log>>

(* the prefilter pass of applyBloom on the texels of dye.read *)
PrefilterField(Ts, Ks) ==
  /\ field.kind = "dye"
  /\ \E t \in Ts, k \in Ks :
       field' = [kind |-> "prefiltered", dye |-> field.dye, threshold |-> t, softKnee |-> k,
                 bloom |-> prefilterPass(field.dye, prefilterCurve(t, k), t, 1)]
  /\ UNCHANGED <<pc, host, this, gl, tex, raf, timer, moves, log>>

(* splat(x2 / 2, y2 / 2, color, force) on the texels of dye.read and velocity.read *)
SplatField(Ps, Fs) ==
  /\ field.kind = "fields"
  /\ \E x2 \in Ps, y2 \in Ps, force \in Fs, color \in SplatColors, rnd \in SplatRandoms,
        nan \in NaNBytes :
       \E r \in {splatTexels(field.dye, field.velocity, x2, y2, color, force, rnd, nan)} :
         field' = [kind |-> "splatted", x2 |-> x2, y2 |-> y2, force |-> force,
                   before |-> [dye |-> field.dye, velocity |-> field.velocity],
                   dye |-> r.dye, velocity |-> r.velocity]
  /\ UNCHANGED <<pc, host, this, gl, tex, raf, timer, moves, log>>

(* Inputs of the particles: random numbers in ten-thousandths, the bytes of a
   velocity texel, the sizes of the window *)
ParticleRandoms == {<<0, 0, 0>>, <<9999, 9999, 200>>}
ParticleBytes == {<<0, 0>>, <<MaxByte, MaxByte>>}
ParticleWindows == {<<100, 100>>, <<20, 10>>}

(* a particle as initParticles makes it, line 68: the canvas has its default
   size then, the window's size comes with resizeCanvas, line 81 *)
InitParticles ==
  /\ pc = "loaded"
  /\ host = [ctx2d |-> TRUE]
  /\ this = NoThis
  /\ gl = NoGL
  /\ tex = << >>
  /\ raf = 0
  /\ timer = "none"
  /\ moves = 0
  /\ log = << >>
  /\ field \in {[kind |-> "particle", last |-> "initParticles", canvas |-> NoThis.canvas,
                  resizes |-> 0, inside |-> TRUE, sampled |-> FALSE,
                  p |-> newParticle(NoThis.canvas, rnd)] : rnd \in ParticleRandoms}

(* resizeCanvas, lines 647-648, as the particle sees it *)
ResizeParticles(W) ==
  /\ field.kind = "particle"
  /\ field.resizes < MaxResizes
  /\ \E win \in W :
       field' = [field EXCEPT !.last = "resizeCanvas", !.resizes = @ + 1,
                              !.canvas = [width |-> win[1], height |-> win[2]]]
  /\ UNCHANGED <<pc, host, this, gl, tex, raf, timer, moves, log>>

(* updateParticles in one tick: the texel holds any of the bytes B when it is
   inside the velocity field; inside and sampled tell how the call found the
   particle: within the canvas, and its texel within the velocity field *)
UpdateParticles(B, R) ==
  /\ field.kind = "particle"
  /\ \E pixels \in (IF texelInside(field.p, field.canvas) THEN B ELSE {<<0, 0>>}), rnd \in R :
       field' = [field EXCEPT !.last = "updateParticles",
                              !.inside = InsideCanvas(field.p, field.canvas),
                              !.sampled = texelInside(field.p, field.canvas),
                              !.p = updateParticle(field.p, field.canvas, pixels, rnd)]
  /\ UNCHANGED <<pc, host, this, gl, tex, raf, timer, moves, log>>

OneWindow == {<<4, 4>>}
FirstTick == TickInputs({7}, {FALSE}, {FALSE})

(* The frame loop on a platform that has everything: ticks, splats from every
   source, resizes, and a controller that alters the configuration. *)
Next ==
  \/ Construct(GoodPlatforms, WindowSizes, FirstTick)
  \/ Tick(TickInputs({7}, BOOLEAN, BOOLEAN))
  \/ MouseDown
  \/ Resize(WindowSizes)
  \/ Timeout(RandomPositions)
  \/ SetPaused
  \/ SetIterations

Spec == Init /\ [][Next]_vars

(* The pointer mailbox: every pointer and touch event, and ticks. *)
NextPointer ==
  \/ Construct(GoodPlatforms, OneWindow, FirstTick)
  \/ Tick(TickInputs({7}, {FALSE}, {FALSE}))
  \/ MouseMove(Positions)
  \/ TouchMove(Positions)
  \/ MouseDown
  \/ TouchStart(Positions)
  \/ MouseUp
  \/ TouchEnd

SpecPointer == Init /\ [][NextPointer]_vars

(* The clock: ticks after every wall-clock gap. *)
NextClock ==
  \/ Construct(GoodPlatforms, OneWindow, TickInputs(Elapsed, {FALSE}, BOOLEAN))
  \/ Tick(TickInputs(Elapsed, BOOLEAN, BOOLEAN))
  \/ MouseDown

SpecClock == Init /\ [][NextClock]_vars

(* Construction on every platform. *)
NextInit ==
  \/ Construct(Platforms, OneWindow, FirstTick)
  \/ Tick(TickInputs({7}, {FALSE}, {FALSE}))
  \/ MouseDown
  \/ Resize(OneWindow)
  \/ Timeout(RandomPositions)

SpecInit == Init /\ [][NextInit]_vars

(* Rendering with bloom on and off: ticks, splats, resizes, and a controller
   that sets config.BLOOM. *)
NextBloom ==
  \/ Construct(GoodPlatforms, OneWindow, FirstTick)
  \/ Tick(TickInputs({7}, {FALSE}, {FALSE}))
  \/ MouseDown
  \/ Resize(WindowSizes)
  \/ SetBloom

SpecBloom == Init /\ [][NextBloom]_vars

(* The bloom pyramid: windows of every size, the empty one included, and a
   controller that sets the bloom's iteration count and resolution. *)
PyramidWindows == {<<4, 4>>, <<5, 1>>, <<0, 4>>}
PyramidIterations == {0, 2, BLOOM_ITERATIONS}
PyramidResolutions == {1, BLOOM_RESOLUTION}

NextPyramid ==
  \/ Construct(GoodPlatforms, PyramidWindows, FirstTick)
  \/ Tick(TickInputs({7}, {FALSE}, {FALSE}))
  \/ Resize(PyramidWindows)
  \/ SetBloom
  \/ SetBloomIterations(PyramidIterations)
  \/ SetBloomResolution(PyramidResolutions)

SpecPyramid == Init /\ [][NextPyramid]_vars

(* A particle of the overlay through ticks and resizes. *)
NextParticles ==
  \/ ResizeParticles(ParticleWindows)
  \/ UpdateParticles(ParticleBytes, ParticleRandoms)

SpecParticles == InitParticles /\ [][NextParticles]_vars

(* The arithmetic of the shaders, each on the texels it may find. *)
NextShaders ==
  \/ ProjectField(JacobiCounts)
  \/ PrefilterField(Thresholds, SoftKnees)
  \/ SplatField(SplatPoints, SplatForces)

SpecShaders == InitShaders /\ [][NextShaders]_vars

----------------------------------------------------------------------------
(* Properties.  They read `log`, the calls and passes of the handler that ran
   last, and the state it left. *)

Kinds(k) == {i \in DOMAIN log : log[i].kind = k}

PassesOf(fn) == {i \in DOMAIN log : log[i].kind = "pass" /\ log[i].fn = fn}

IsStepPass(e) == e.kind = "pass" /\ e.fn = "step"

StepPasses == SelectSeq(log, IsStepPass)

Fields ==
  {this.dye.read, this.dye.write, this.velocity.read, this.velocity.write,
   this.pressure.read, this.pressure.write, this.divergence, this.curl}

DoubleBuffers == {this.dye, this.velocity, this.pressure}

(* C1: in every pass that step(), splat() and applyBloom() issue, whatever the
   number of pressure iterations and whatever ticks, splats and resizes came
   before, the buffer bound as render target is none of the buffers the pass
   samples. *)
NoPassReadsItsTarget ==
  \A i \in DOMAIN log :
    (log[i].kind = "pass" /\ log[i].fn \in {"step", "splat", "applyBloom"})
      => \A r \in log[i].reads : r.id # log[i].target

(* a tick after a resize event, with no pressure iteration, that ran splat, step
   and applyBloom passes *)
PassesAfterResize ==
  /\ Kinds("update") # {}
  /\ this.gen >= 3
  /\ this.config.PRESSURE_ITERATIONS = 0
  /\ PassesOf("splat") # {}
  /\ PassesOf("step") # {}
  /\ PassesOf("applyBloom") # {}

(* C2: on every double buffer that createDoubleFBO made, swap() exchanges read
   and write, two swaps give the double buffer back, and width, height and
   texel size are what they were. *)
SwapExchanges ==
  this.gen > 0 =>
    \A db \in DoubleBuffers :
      /\ db.read.id # db.write.id
      /\ swap(db).read = db.write
      /\ swap(db).write = db.read
      /\ swap(swap(db)) = db
      /\ swap(db).width = db.width
      /\ swap(db).height = db.height
      /\ swap(db).texelSizeX = db.texelSizeX
      /\ swap(db).texelSizeY = db.texelSizeY

(* dye has been swapped an odd number of times, pressure too *)
SwappedOnce ==
  /\ this.gen > 0
  /\ this.dye.read.id = <<this.gen, "dye", 2>>
  /\ this.pressure.read.id = <<this.gen, "pressure", 2>>
  /\ this.velocity.read.id = <<this.gen, "velocity", 1>>

StepOrder(n) ==
  <<"advection", "curl", "vorticity", "divergence", "clear">>
    \o [i \in 1..n |-> "pressure"] \o <<"gradientSubtract", "advection">>

StepTargets(n) ==
  <<"velocity", "curl", "velocity", "divergence", "pressure">>
    \o [i \in 1..n |-> "pressure"] \o <<"velocity", "dye">>

SourceOf(e) == {r.id[2] : r \in {q \in e.reads : q.u = "uSource"}}

(* C3: the passes of a step() are, in this order: advection of velocity through
   itself, curl, vorticity, divergence, pressure clear, PRESSURE_ITERATIONS
   Jacobi passes, gradient subtraction, advection of dye; each writes the field
   named, so gradient subtraction is the last write of velocity before dye is
   advected. *)
StepRunsInOrder ==
  Kinds("step") # {} =>
    LET n == this.config.PRESSURE_ITERATIONS
        P == StepPasses
    IN  /\ Cardinality(Kinds("step")) = 1
        /\ [i \in DOMAIN P |-> P[i].prog] = StepOrder(n)
        /\ [i \in DOMAIN P |-> P[i].target[2]] = StepTargets(n)
        /\ SourceOf(P[1]) = {"velocity"}
        /\ SourceOf(P[Len(P)]) = {"dye"}

(* a step with two Jacobi passes *)
StepWithJacobi ==
  /\ Kinds("step") # {}
  /\ this.config.PRESSURE_ITERATIONS = 2
  /\ Len(StepPasses) = 9

(* C4 as the specification has it: a tick that finds PAUSED set issues no pass
   of step() and still issues the display pass. *)
PausedTickSkipsStep ==
  (Kinds("update") # {} /\ this.config.PAUSED) =>
    /\ Kinds("step") = {}
    /\ PassesOf("step") = {}
    /\ \E i \in PassesOf("render") : log[i].prog = "display" /\ log[i].target = Screen

BuildFailed == this.gl /\ \E p \in Programs : ~ this.programs[p]

(* C5 as the specification has it: when a shader does not compile or a program
   does not link, construction aborts: no framebuffer is made, no draw is issued
   with a null program, update() does not run, no frame is scheduled. *)
FailedBuildAborts ==
  BuildFailed =>
    /\ pc = "aborted"
    /\ this.gen = 0
    /\ raf = 0
    /\ Kinds("update") = {}
    /\ Kinds("nodraw") = {}

CapabilityMissing ==
  /\ pc # "loaded"
  /\ \/ ~ this.gl
     \/ ~ this.ext.formatRGBA
     \/ ~ this.ext.supportLinearFiltering

(* C6 as the specification has it: without a WebGL context, or without the
   float-texture or the linear-filtering extension, nothing is allocated and
   update() never runs. *)
MissingCapabilityStopsStart ==
  CapabilityMissing =>
    /\ this.gen = 0
    /\ tex = << >>
    /\ raf = 0
    /\ Kinds("update") = {}

(* C6, amended: without a WebGL context nothing is allocated, update() never
   runs and no frame is scheduled.  With a context, a missing extension does not
   stop construction: dye and velocity are allocated as RGB when no float
   extension is found and filtered NEAREST when no linear-filtering extension is
   found, the other fields as RGBA / NEAREST, and when the programs build the
   constructor goes on to the listeners and update(). *)
MissingExtensionDegrades ==
  /\ pc = "nogl" =>
       /\ ~ this.gl
       /\ this.gen = 0
       /\ tex = << >>
       /\ raf = 0
       /\ Kinds("update") = {}
  /\ (this.gl /\ this.gen > 0) =>
       /\ \A db \in {this.dye, this.velocity} : \A f \in {db.read, db.write} :
            /\ f.texType = (IF this.ext.formatRGBA THEN "RGBA" ELSE "RGB")
            /\ f.texFilter = (IF this.ext.supportLinearFiltering THEN "LINEAR" ELSE "NEAREST")
       /\ \A f \in {this.pressure.read, this.pressure.write, this.divergence, this.curl} :
            f.texType = "RGBA" /\ f.texFilter = "NEAREST"
  /\ (this.gl /\ ~ BuildFailed) =>
       /\ pc \in {"stalled", "constructed"}
       /\ this.gen >= 2
       /\ pc = "constructed" => (raf > 0 \/ Kinds("update") # {})

(* a tick has run on a platform without the float and linear-filtering
   extensions, on RGB / NEAREST dye *)
DegradedTick ==
  /\ pc = "constructed"
  /\ ~ this.ext.formatRGBA
  /\ ~ this.ext.supportLinearFiltering
  /\ this.dye.read.texType = "RGB"
  /\ this.velocity.write.texFilter = "NEAREST"
  /\ Kinds("update") # {}
  /\ Kinds("constructor") = {}
  /\ PassesOf("step") # {}

PointerSplats(l) == {i \in DOMAIN l : l[i].kind = "splat" /\ l[i].origin = "pointer"}

(* A step of the mailbox: a move event overwrites the position with its own and
   raises the flag; a tick reads the mailbox as the last event left it, issues
   at most one pointer splat, from that content, lowers the flag and changes
   nothing else of the pointer. *)
MailboxStep ==
  /\ (log' # << >> /\ log'[1].kind \in {"mousemove", "touchmove"}) =>
       /\ this'.pointer.moved
       /\ this'.pointer.x = log'[1].x
       /\ this'.pointer.y = log'[1].y
       /\ this'.pointer.down = this.pointer.down
  /\ (log' # << >> /\ log'[1].kind = "update") =>
       /\ ~ this'.pointer.moved
       /\ this'.pointer = [this.pointer EXCEPT !.moved = FALSE]
       /\ Cardinality(PointerSplats(log')) <= 1
       /\ PointerSplats(log') # {} => this.pointer.moved
       /\ \A i \in PointerSplats(log') :
            /\ log'[i].x = this.pointer.x
            /\ log'[i].y = this.pointer.y
            /\ log'[i].force4 = this.pointer.dx * this.pointer.dx
                                  + this.pointer.dy * this.pointer.dy

(* C7: the pointer is a single-slot mailbox: however many move events come
   between two ticks, the tick sees the state the last one left, issues at most
   one pointer splat and leaves the moved flag false, the pointer down or not. *)
PointerIsMailbox == [][MailboxStep]_vars

(* a tick that followed two or more move events and issued the pointer splat *)
CoalescedTick ==
  /\ log # << >>
  /\ log[1].kind = "update"
  /\ log[1].moves >= 2
  /\ PointerSplats(log) # {}
  /\ ~ this.pointer.moved

ExternalKinds ==
  {"constructor", "update", "mousemove", "touchmove", "mousedown", "touchstart",
   "mouseup", "touchend", "resizeCanvas", "initFramebuffers", "timer", "splat"}

BufferIds(e) ==
  IF e.kind = "pass" THEN {e.target} \cup {r.id : r \in e.reads}
  ELSE IF e.kind = "readPixels" THEN {e.id}
  ELSE {}

(* C8: a handler runs whole.  From the "step" of a tick to the display pass of
   its render there is the step, one readPixels per particle, the render, and
   nothing an event listener, a resize or a timer does; every buffer used there
   belongs to the allocation the tick started with; and fields are allocated
   only by the constructor before its update() and by a resize event. *)
TickRunsWhole ==
  /\ Cardinality(Kinds("update")) <= 1
  /\ \A u \in Kinds("update") :
       \E s \in Kinds("step"), r \in Kinds("render"), d \in PassesOf("render") :
         /\ u < s /\ s < r /\ r < d
         /\ Kinds("step") = {s}
         /\ Kinds("render") = {r}
         /\ PassesOf("render") = {d}
         /\ log[d].target = Screen
         /\ PassesOf("step") # {}
         /\ \A i \in PassesOf("step") : s < i /\ i < r
         /\ Cardinality(Kinds("readPixels")) = NumParticles
         /\ \A i \in Kinds("readPixels") : s < i /\ i < r
         /\ \A i \in s + 1 .. d :
              /\ log[i].kind \notin ExternalKinds
              /\ \A id \in BufferIds(log[i]) \ {Screen} : id[1] = this.gen
  /\ \A i \in Kinds("initFramebuffers") :
       /\ log[1].kind \in {"constructor", "resizeCanvas"}
       /\ \A u \in Kinds("update") : i < u

(* a tick with an audio splat, the step with its Jacobi passes, the bloom and
   the display pass, on fields a resize event allocated *)
WholeTick ==
  /\ log # << >>
  /\ log[1].kind = "update"
  /\ this.gen >= 3
  /\ Kinds("splat") # {}
  /\ this.config.PRESSURE_ITERATIONS = 1
  /\ Len(StepPasses) = 8
  /\ PassesOf("applyBloom") # {}
  /\ PassesOf("render") # {}

(* A resize event leaves the canvas at the window's size and every simulation
   field on a texture that did not exist before, cleared, of the canvas's size;
   no texture of the previous allocation is left. *)
ResizeStep ==
  (log' # << >> /\ log'[1].kind = "resizeCanvas") =>
    /\ this'.canvas = [width |-> log'[1].win[1], height |-> log'[1].win[2]]
    /\ Cardinality({f.id : f \in Fields'}) = 8
    /\ \A f \in Fields' :
         /\ f.id \notin DOMAIN tex
         /\ f.id \in DOMAIN tex'
         /\ tex'[f.id] = "zero"
         /\ f.width = log'[1].win[1] * TEXTURE_DOWNSAMPLE
         /\ f.height = log'[1].win[2] * TEXTURE_DOWNSAMPLE
    /\ \A db \in DoubleBuffers' :
         /\ db.width = log'[1].win[1] * TEXTURE_DOWNSAMPLE
         /\ db.height = log'[1].win[2] * TEXTURE_DOWNSAMPLE
         /\ db.texelSizeX = <<1, db.width>>
         /\ db.texelSizeY = <<1, db.height>>
    /\ DOMAIN tex' \cap DOMAIN tex = {}
    /\ \A id \in DOMAIN tex' : tex'[id] = "zero"

(* C9: after any resize, dye, velocity, pressure, divergence and curl are new,
   zero fields of the new canvas's size and nothing of the previous fields is
   left; so a resize to half the size and back gives fields of the first size,
   empty. *)
ResizeGivesFreshFields == [][ResizeStep]_vars

(* the second resize event after construction: the window is again 4 x 4, the
   fields are 4 x 4 and empty *)
ResizedBack ==
  /\ log # << >>
  /\ log[1].kind = "resizeCanvas"
  /\ log[1].win = <<4, 4>>
  /\ this.gen >= 4
  /\ this.dye.width = 4
  /\ this.velocity.read.height = 4
  /\ tex[this.dye.read.id] = "zero"

(* C10: the dt a tick passes to step() is at most the ceiling, whatever time
   has passed since the tick before, and is the elapsed time when that is below
   the ceiling. *)
DtClamped ==
  \A i \in Kinds("step") :
    /\ log[i].dt <= DtCeiling
    /\ \E j \in Kinds("update") :
         /\ j < i
         /\ log[j].elapsed < DtCeiling => log[i].dt = log[j].elapsed
         /\ log[j].elapsed >= DtCeiling => log[i].dt = DtCeiling

(* a tick after the longest gap, stepped by the ceiling *)
LongGapTick ==
  \E i \in Kinds("step"), j \in Kinds("update") :
    /\ log[j].elapsed = MaxElapsed
    /\ log[j].elapsed > DtCeiling
    /\ log[i].dt = DtCeiling

SplatsOf(l) == {i \in DOMAIN l : l[i].kind = "splat"}

SamplerOf(e, u) == {r.id : r \in {q \in e.reads : q.u = u}}

WritesOf(l, i, f) == {j \in 1..(i - 1) : l[j].kind = "pass" /\ l[j].target[2] = f}

Last(S) == CHOOSE j \in S : \A k \in S : k <= j

(* The buffer of field f that holds the field's content when entry i of the
   handler's log l is issued: the target of the last pass that wrote f earlier in
   the handler, or else the buffer that was f.read when the handler began. *)
Current(l, i, f) ==
  IF WritesOf(l, i, f) # {} THEN l[Last(WritesOf(l, i, f))].target ELSE this[f].read.id

Other(id) == <<id[1], id[2], 3 - id[3]>>

IsSplatPass(e, f) ==
  /\ e.kind = "pass"
  /\ e.prog = "splat"
  /\ e.fn = "splat"
  /\ e.target[2] = f

(* A handler's splats: each is one pass on dye, a swap of dye, one pass on
   velocity, a swap of velocity; each pass samples the buffer that holds the
   field at that moment and writes the other buffer of the pair; the step that
   follows advects velocity and dye from the buffers the last splat wrote. *)
SplatStep ==
  LET l == log'
  IN  (l # << >> /\ l[1].kind \in {"update", "timer", "mousedown"}) =>
        /\ \A i \in SplatsOf(l) :
             /\ i + 4 <= Len(l)
             /\ IsSplatPass(l[i + 1], "dye")
             /\ l[i + 2] = [kind |-> "swap", field |-> "dye"]
             /\ IsSplatPass(l[i + 3], "velocity")
             /\ l[i + 4] = [kind |-> "swap", field |-> "velocity"]
             /\ SamplerOf(l[i + 1], "uTarget") = {Current(l, i, "dye")}
             /\ l[i + 1].target = Other(Current(l, i, "dye"))
             /\ SamplerOf(l[i + 3], "uTarget") = {Current(l, i, "velocity")}
             /\ l[i + 3].target = Other(Current(l, i, "velocity"))
             /\ \A k \in SplatsOf(l) :
                  (k < i /\ \A j \in SplatsOf(l) : ~ (k < j /\ j < i)) =>
                    /\ SamplerOf(l[i + 1], "uTarget") = {l[k + 1].target}
                    /\ SamplerOf(l[i + 3], "uTarget") = {l[k + 3].target}
        /\ Cardinality({j \in DOMAIN l : l[j].kind = "pass" /\ l[j].fn = "splat"})
             = 2 * Cardinality(SplatsOf(l))
        /\ \A s \in {j \in DOMAIN l : l[j].kind = "step"} :
             \A k \in SplatsOf(l) :
               (k < s /\ \A j \in SplatsOf(l) : j <= k) =>
                 /\ SamplerOf(l[s + 1], "uVelocity") = {l[k + 3].target}
                 /\ SamplerOf(l[s + 1], "uSource") = {l[k + 3].target}
                 /\ \E d \in s + 1 .. Len(l) :
                      /\ l[d].kind = "pass"
                      /\ l[d].fn = "step"
                      /\ l[d].target[2] = "dye"
                      /\ SamplerOf(l[d], "uSource") = {l[k + 1].target}

(* C11: every splat() issues exactly one dye pass and one velocity pass, each
   reading the buffer that is then the read buffer, writing the write buffer and
   swapping before the next pass; of several splats before a step, each reads
   what the one before wrote, and the step advects what the last one wrote. *)
SplatsAccumulate == [][SplatStep]_vars

(* a tick that issued two splats and then the step *)
SplatsThenStep ==
  /\ log # << >>
  /\ log[1].kind = "update"
  /\ Cardinality(Kinds("splat")) >= 2
  /\ \E s \in Kinds("step") : \A i \in Kinds("splat") : i < s

BloomOrder == <<"bloomPrefilter", "bloomBlur", "bloomBlur", "bloomFinal">>

BloomPasses == SelectSeq(log, LAMBDA e : e.kind = "pass" /\ e.fn = "applyBloom")

(* C12: in every render with bloom enabled, the prefilter, the two blur passes
   and the composite pass are issued, and dye is swapped, before the display
   pass; the display pass samples the buffer the composite pass wrote.  With
   bloom disabled no bloom pass is issued and the display pass samples the buffer
   the step's dye advection wrote. *)
DisplayReadsComposite ==
  \A r \in Kinds("render") : \A d \in PassesOf("render") :
    /\ r < d
    /\ log[d].prog = "display"
    /\ log[d].target = Screen
    /\ this.config.BLOOM =>
         /\ [i \in DOMAIN BloomPasses |-> BloomPasses[i].prog] = BloomOrder
         /\ \A i \in PassesOf("applyBloom") : r < i /\ i < d
         /\ \E f \in PassesOf("applyBloom") :
              /\ log[f].prog = "bloomFinal"
              /\ log[f].target[2] = "dye"
              /\ log[f + 1] = [kind |-> "swap", field |-> "dye"]
              /\ f + 1 < d
              /\ \A i \in f + 1 .. d - 1 : log[i].kind # "pass"
              /\ SamplerOf(log[d], "uTexture") = {log[f].target}
              /\ this.dye.read.id = log[f].target
              /\ tex[log[f].target] = "bloomFinal"
    /\ ~ this.config.BLOOM =>
         /\ PassesOf("applyBloom") = {}
         /\ Kinds("applyBloom") = {}
         /\ \A s \in Kinds("step") :
              /\ s < r
              /\ SamplerOf(log[d], "uTexture") = {StepPasses[Len(StepPasses)].target}
              /\ StepPasses[Len(StepPasses)].target[2] = "dye"
              /\ tex[this.dye.read.id] = "advection"
              /\ SamplerOf(log[d], "uTexture") = {this.dye.read.id}

(* a frame rendered with bloom, after a resize, on a host that draws the overlay *)
BloomedFrame ==
  /\ this.config.BLOOM
  /\ this.gen >= 3
  /\ Kinds("overlay") # {}
  /\ \E d \in PassesOf("render") : \E f \in PassesOf("applyBloom") :
       /\ log[f].prog = "bloomFinal"
       /\ f < d
       /\ SamplerOf(log[d], "uTexture") = {log[f].target}

(* C13: the particles sample velocity after the tick's step() and before its
   render: every readPixels reads the buffer the gradient-subtraction pass of
   the same tick wrote, which is velocity.read then and at the end of the tick;
   between the last call of the step and the render there are the readPixels
   calls and no pass and no swap. *)
ParticlesReadProjected ==
  \A u \in Kinds("update") :
    /\ Kinds("render") # {} => Cardinality(Kinds("readPixels")) = NumParticles
    /\ \A p \in Kinds("readPixels") :
         \E s \in Kinds("step"), r \in Kinds("render") :
           \E g \in PassesOf("step") :
             /\ log[g].prog = "gradientSubtract"
             /\ s < g /\ g < p /\ p < r
             /\ log[p].id = log[g].target
             /\ log[p].id = this.velocity.read.id
             /\ tex[log[p].id] = "gradientSubtract"
             /\ \A i \in PassesOf("step") : i < p
             /\ \A i \in g + 1 .. r : log[i].kind = "pass" => log[i].target[2] = "dye"
             /\ \A i \in p .. r : log[i].kind \in {"readPixels", "render"}
             /\ \A i \in PassesOf("applyBloom") \cup PassesOf("render") : r < i

(* a tick with a splat and two Jacobi passes whose particles read velocity *)
ParticlesSampled ==
  /\ Kinds("update") # {}
  /\ Kinds("splat") # {}
  /\ this.config.PRESSURE_ITERATIONS = 2
  /\ Kinds("readPixels") # {}
  /\ Kinds("render") # {}

(* C14 as the specification has it: once the instance is constructed on a
   platform that has WebGL and builds every program, every tick of update(), the
   constructor's first one included, ends by scheduling one next tick, and one
   frame callback is pending between ticks. *)
FrameLoopRuns ==
  (this.gl /\ ~ BuildFailed) =>
    /\ raf = 1
    /\ \A u \in Kinds("update") :
         /\ log[Len(log)].kind = "requestAnimationFrame"
         /\ Cardinality(Kinds("requestAnimationFrame")) = 1

StepPassOf(prog) == {i \in DOMAIN StepPasses : StepPasses[i].prog = prog}

(* C18: whatever PRESSURE_ITERATIONS >= 0 is, the pressure buffer the
   gradient-subtraction pass samples is the one the pass just before it wrote:
   the last Jacobi pass of the same step, or the clear pass when there is no
   iteration; it is the buffer written last and no buffer written earlier. *)
GradientReadsLatestPressure ==
  \A s \in Kinds("step") :
    LET n == this.config.PRESSURE_ITERATIONS
        P == StepPasses
    IN  \A g \in StepPassOf("gradientSubtract") :
          /\ g = 6 + n
          /\ P[g - 1].prog = (IF n = 0 THEN "clear" ELSE "pressure")
          /\ P[g - 1].target[2] = "pressure"
          /\ SamplerOf(P[g], "uPressure") = {P[g - 1].target}
          /\ \A j \in 1..(g - 2) : P[j].target[2] = "pressure" =>
               \/ P[j].target # P[g - 1].target
               \/ \E k \in (j + 1)..(g - 2) : P[k].target = Other(P[g - 1].target)
          /\ P[g - 2].target[2] = "pressure" =>
               SamplerOf(P[g], "uPressure") # {P[g - 2].target}
          /\ this.pressure.read.id = P[g - 1].target
          /\ tex[P[g - 1].target] = (IF n = 0 THEN "clear" ELSE "pressure")

(* a step without Jacobi iteration: gradient subtraction read the cleared
   pressure *)
GradientAfterClear ==
  /\ Kinds("step") # {}
  /\ this.config.PRESSURE_ITERATIONS = 0
  /\ \E g \in StepPassOf("gradientSubtract") :
       /\ StepPasses[g - 1].prog = "clear"
       /\ SamplerOf(StepPasses[g], "uPressure") = {StepPasses[g - 1].target}

(* A step's pressure solve: the clear pass samples the pressure the handler
   found, scaled by PRESSURE_DISSIPATION; there are PRESSURE_ITERATIONS Jacobi
   passes; the first samples what the clear pass wrote, each later one what the
   one before it wrote; all sample the divergence buffer, which the step wrote
   once, before them; pressure is swapped PRESSURE_ITERATIONS + 1 times. *)
JacobiStep ==
  LET l == log'
      n == this'.config.PRESSURE_ITERATIONS
      P == SelectSeq(l, IsStepPass)
      J == {i \in DOMAIN P : P[i].prog = "pressure"}
      D == {i \in DOMAIN P : P[i].target[2] = "divergence"}
  IN  (l # << >> /\ l[1].kind = "update" /\ \E i \in DOMAIN l : l[i].kind = "step") =>
        /\ J = 6..(5 + n)
        /\ P[5].prog = "clear"
        /\ SamplerOf(P[5], "uTexture") = {this.pressure.read.id}
        /\ P[5].target = this.pressure.write.id
        /\ P[5].floats.value = PRESSURE_DISSIPATION
        /\ \A i \in J :
             /\ SamplerOf(P[i], "uPressure") = {P[i - 1].target}
             /\ P[i].target = Other(P[i - 1].target)
             /\ SamplerOf(P[i], "uDivergence") = {P[4].target}
        /\ D = {4}
        /\ P[4].prog = "divergence"
        /\ Cardinality({i \in DOMAIN l : l[i] = [kind |-> "swap", field |-> "pressure"]})
             = n + 1
        /\ \A i \in DOMAIN l :
             (l[i].kind = "pass" /\ l[i].target[2] = "pressure") =>
               l[i + 1] = [kind |-> "swap", field |-> "pressure"]

(* C19: each step runs exactly PRESSURE_ITERATIONS Jacobi passes; the first
   reads the previous frame's pressure times PRESSURE_DISSIPATION, the output of
   the clear pass, every later one the buffer the one before wrote; all read the
   divergence written once earlier in the step; pressure is swapped
   PRESSURE_ITERATIONS + 1 times. *)
JacobiChain == [][JacobiStep]_vars

(* a step with two Jacobi passes, the second reading what the first wrote *)
TwoJacobiPasses ==
  /\ Kinds("step") # {}
  /\ this.config.PRESSURE_ITERATIONS = 2
  /\ Cardinality(StepPassOf("pressure")) = 2
  /\ SamplerOf(StepPasses[7], "uPressure") = {StepPasses[6].target}
  /\ Cardinality({i \in DOMAIN log : log[i] = [kind |-> "swap", field |-> "pressure"]}) = 3

(* C20: in every step the dye advection samples, as velocity, the buffer the
   gradient-subtraction pass of that step wrote, and decays dye by
   DENSITY_DISSIPATION; the velocity advection samples velocity.read both as
   velocity and as source and decays it by VELOCITY_DISSIPATION. *)
DyeAdvectedByProjected ==
  \A s \in Kinds("step") :
    LET P == StepPasses
        d == Len(P)
    IN  /\ StepPassOf("advection") = {1, d}
        /\ P[d].target[2] = "dye"
        /\ P[d - 1].prog = "gradientSubtract"
        /\ SamplerOf(P[d], "uVelocity") = {P[d - 1].target}
        /\ SamplerOf(P[d], "uVelocity") = {this.velocity.read.id}
        /\ tex[this.velocity.read.id] = "gradientSubtract"
        /\ SamplerOf(P[d], "uSource") \subseteq
             {this.dye.read.id, this.dye.write.id} \ {P[d].target}
        /\ P[d].floats.dissipation = this.config.DENSITY_DISSIPATION
        /\ P[d].floats.dissipation = DENSITY_DISSIPATION
        /\ P[d].floats.dt = log[s].dt
        /\ P[1].target[2] = "velocity"
        /\ SamplerOf(P[1], "uVelocity") = SamplerOf(P[1], "uSource")
        /\ SamplerOf(P[1], "uVelocity") = {Other(P[1].target)}
        /\ P[1].floats.dissipation = this.config.VELOCITY_DISSIPATION
        /\ P[1].floats.dissipation = VELOCITY_DISSIPATION
        /\ P[1].floats.dt = log[s].dt

(* a tick with a splat whose step advected velocity and then dye *)
BothAdvections ==
  /\ Kinds("update") # {}
  /\ Kinds("splat") # {}
  /\ \E s \in Kinds("step") :
       /\ Cardinality(StepPassOf("advection")) = 2
       /\ StepPasses[Len(StepPasses)].floats.dissipation = DENSITY_DISSIPATION
       /\ StepPasses[1].floats.dissipation = VELOCITY_DISSIPATION

(* C15 as the specification has it: the projection of a velocity field that is
   not zero leaves a divergence smaller in squared L2 norm than the one it
   found, and the more Jacobi iterations it runs, of 0, 1, 10 and 50, the
   smaller the divergence it leaves. *)
ProjectionReducesDivergence ==
  (field.kind = "projected" /\ \E k \in 1..NumCells : field.before[k] # <<0, 0, 0>>) =>
    /\ field.norms[field.n] < SquaredDivergence(field.before, 1)
    /\ \A a \in JacobiCounts, b \in JacobiCounts :
         a < b => field.norms[b] < field.norms[a]

(* what the projection does on byte textures: nothing *)
PressureStaysZero ==
  field.kind = "projected" =>
    /\ field.pressure = ZeroPressure
    /\ field.velocity = field.before
    /\ \A c \in JacobiCounts : field.norms[c] = SquaredDivergence(field.before, 1)

Brightness(t) == Max(Channel(t[1]), Max(Channel(t[2]), Channel(t[3])))

(* C16 as the specification has it: whatever the threshold and the soft knee
   are, the prefilter's output is zero everywhere when the brightness of every
   input texel is below threshold - softKnee. *)
PrefilterCutsBelowKnee ==
  (/\ field.kind = "prefiltered"
   /\ \A k \in 1..NumCells : Brightness(field.dye[k]) < field.threshold - field.softKnee) =>
    \A k \in 1..NumCells : field.bloom[k] = <<0, 0, 0>>

(* C17 as the specification has it: a splat of force 0 leaves every texel of dye
   and of velocity as it was, the texel at the centre of the splat included. *)
ZeroSplatChangesNothing ==
  (field.kind = "splatted" /\ field.force = 0) =>
    /\ \A k \in 1..NumCells : field.dye[k] = field.before.dye[k]
    /\ \A k \in 1..NumCells : field.velocity[k] = field.before.velocity[k]

(* a move event is the handler that ran in this step *)
MoveEvent ==
  /\ log' # << >>
  /\ log'[1].kind \in {"mousemove", "touchmove"}

DeltaSincePrevious ==
  /\ this'.pointer.x = log'[1].x
  /\ this'.pointer.y = log'[1].y
  /\ this'.pointer.dx = log'[1].x - this.pointer.x
  /\ this'.pointer.dy = log'[1].y - this.pointer.y

(* C21 as the specification has it: after every mousemove and every touchmove
   the pointer holds the event's position, and its delta is the event's position
   minus the position the pointer held before the event. *)
MoveRecordsDelta == [][MoveEvent => DeltaSincePrevious]_vars

(* what holds of the two handlers: touchmove records the delta, mousemove
   records the position and a delta of zero *)
TouchRecordsDelta ==
  [][(MoveEvent /\ log'[1].kind = "touchmove") => DeltaSincePrevious]_vars

MouseDeltaIsZero ==
  [][(MoveEvent /\ log'[1].kind = "mousemove") =>
       /\ this'.pointer.x = log'[1].x
       /\ this'.pointer.y = log'[1].y
       /\ this'.pointer.dx = 0
       /\ this'.pointer.dy = 0]_vars

(* the mailbox as a tick finds it shows a drag faster than the threshold:
   0.5 * sqrt(dx^2 + dy^2) > 1 is dx^2 + dy^2 > 4 *)
FastDrag ==
  /\ this.pointer.moved
  /\ this.pointer.down
  /\ this.pointer.dx * this.pointer.dx + this.pointer.dy * this.pointer.dy > 4

DrainStep ==
  (log' # << >> /\ log'[1].kind = "update") =>
    /\ FastDrag =>
         /\ Cardinality(PointerSplats(log')) = 1
         /\ \A i \in PointerSplats(log') :
              /\ log'[i].x = this.pointer.x
              /\ log'[i].y = this.pointer.y
              /\ log'[i].force4 = this.pointer.dx * this.pointer.dx
                                    + this.pointer.dy * this.pointer.dy
    /\ ~ FastDrag => PointerSplats(log') = {}

(* C22: in each tick the pointer contributes a splat exactly when the mailbox
   shows moved and down and the speed 0.5 * sqrt(dx^2 + dy^2) of the recorded
   delta is above 1; the splat is at the pointer's position and its force is
   that speed; otherwise the tick issues no pointer splat. *)
PointerSplatsWhenFast == [][DrainStep]_vars

(* a tick that found a fast drag and issued its splat, the button still down *)
FastDragTick ==
  /\ log # << >>
  /\ log[1].kind = "update"
  /\ this.pointer.down
  /\ \E i \in PointerSplats(log) :
       /\ log[i].force4 > 4
       /\ log[i].x = this.pointer.x
       /\ log[i].y = this.pointer.y

(* a tick that found a drag at the threshold or slower, and issued nothing *)
SlowDragTick ==
  /\ log # << >>
  /\ log[1].kind = "update"
  /\ log[1].moves >= 1
  /\ this.pointer.down
  /\ this.pointer.dx * this.pointer.dx + this.pointer.dy * this.pointer.dy = 4
  /\ PointerSplats(log) = {}

(* the levels i < config.BLOOM_ITERATIONS whose width or height is below 2 *)
SmallLevels ==
  {i \in 0..(this.config.BLOOM_ITERATIONS - 1) :
     Shr(this.bloom.width, i) < 2 \/ Shr(this.bloom.height, i) < 2}

(* C23: after initFramebuffers with bloom enabled, the pyramid is the sequence of
   the levels i = 0, 1, ... of size (bloomWidth >> i, bloomHeight >> i); it has
   BLOOM_ITERATIONS levels unless a level would be narrower or lower than 2, and
   then it stops at the first such level; every level stored is at least 2 x 2
   and there are never more than BLOOM_ITERATIONS. *)
PyramidHalvesAndStops ==
  (Kinds("initFramebuffers") # {} /\ this.config.BLOOM) =>
    /\ \A i \in 1..Len(this.bloomFramebuffers) :
         /\ this.bloomFramebuffers[i].width = Shr(this.bloom.width, i - 1)
         /\ this.bloomFramebuffers[i].height = Shr(this.bloom.height, i - 1)
         /\ this.bloomFramebuffers[i].width >= 2
         /\ this.bloomFramebuffers[i].height >= 2
    /\ Len(this.bloomFramebuffers) <= this.config.BLOOM_ITERATIONS
    /\ SmallLevels = {} => Len(this.bloomFramebuffers) = this.config.BLOOM_ITERATIONS
    /\ SmallLevels # {} =>
         /\ Len(this.bloomFramebuffers) \in SmallLevels
         /\ \A i \in SmallLevels : Len(this.bloomFramebuffers) <= i

(* a pyramid that a level below 2 texels cut short, after at least one level *)
TruncatedPyramid ==
  /\ Kinds("initFramebuffers") # {}
  /\ this.config.BLOOM
  /\ Len(this.bloomFramebuffers) > 0
  /\ Len(this.bloomFramebuffers) < this.config.BLOOM_ITERATIONS
  /\ this.bloom.width = this.canvas.width * this.config.BLOOM_RESOLUTION

(* a pyramid of all its levels *)
FullPyramid ==
  /\ Kinds("initFramebuffers") # {}
  /\ this.config.BLOOM
  /\ Len(this.bloomFramebuffers) = BLOOM_ITERATIONS

(* C27 as the specification has it: whenever applyBloom runs, the base bloom
   buffer and pyramid level 0 exist, whatever the canvas's size, the value of
   BLOOM_ITERATIONS and the resizes before it: the blur never uses an absent
   destination. *)
BloomBuffersPresent ==
  Kinds("applyBloom") # {} =>
    /\ this.bloom.id # NoId
    /\ Len(this.bloomFramebuffers) >= 1

(* what holds: applyBloom finds its buffers when the fields were last allocated
   with bloom enabled, at least one iteration and a bloom resolution of 2 x 2
   or more *)
BloomBuffersPresentWhenAllocated ==
  (/\ Kinds("applyBloom") # {}
   /\ this.bloom.id # NoId
   /\ this.bloom.id[1] = this.gen
   /\ this.bloom.width >= 2
   /\ this.bloom.height >= 2
   /\ \A i \in DOMAIN this.bloomFramebuffers : this.bloomFramebuffers[i].id[1] = this.gen
   /\ Len(this.bloomFramebuffers) >= 1) =>
    /\ Cardinality(PassesOf("applyBloom")) = 4
    /\ Kinds("requestAnimationFrame") # {} \/ ~ host.ctx2d

(* applyBloom stopped at its blur for want of a destination *)
BlurWithoutDestination ==
  /\ Kinds("applyBloom") # {}
  /\ Len(this.bloomFramebuffers) = 0
  /\ Cardinality(PassesOf("applyBloom")) = 1
  /\ Kinds("requestAnimationFrame") = {}

BlurPasses == SelectSeq(log, LAMBDA e : e.kind = "pass" /\ e.prog = "bloomBlur")

(* the textures a pass samples *)
ReadIds(e) == {r.id : r \in e.reads}

(* the levels of the pyramid below level 0 *)
DeeperLevels == {this.bloomFramebuffers[i].id : i \in 2..Len(this.bloomFramebuffers)}

(* C24: the bloom blur is two passes in each render, the horizontal one and then
   the vertical one: the horizontal pass reads the base bloom buffer and writes
   pyramid level 0, the vertical pass reads level 0 and writes the base bloom
   buffer, the composite pass then reads the base bloom buffer, and no other
   level of the pyramid is read or written. *)
BlurIsTwoPasses ==
  Kinds("applyBloom") # {} =>
    /\ Cardinality(Kinds("render")) = 1
    /\ Len(BlurPasses) = 2
    /\ Len(BloomPasses) = 4
    /\ BloomPasses[2] = BlurPasses[1]
    /\ BloomPasses[3] = BlurPasses[2]
    /\ BlurPasses[1].floats["directionX"] = 1
    /\ BlurPasses[1].floats["directionY"] = 0
    /\ SamplerOf(BlurPasses[1], "uTexture") = {this.bloom.id}
    /\ BlurPasses[1].target = this.bloomFramebuffers[1].id
    /\ BlurPasses[2].floats["directionX"] = 0
    /\ BlurPasses[2].floats["directionY"] = 1
    /\ SamplerOf(BlurPasses[2], "uTexture") = {this.bloomFramebuffers[1].id}
    /\ BlurPasses[2].target = this.bloom.id
    /\ BloomPasses[4].prog = "bloomFinal"
    /\ SamplerOf(BloomPasses[4], "uBloom") = {this.bloom.id}
    /\ \A i \in DOMAIN log :
         log[i].kind = "pass" =>
           /\ log[i].target \notin DeeperLevels
           /\ ReadIds(log[i]) \cap DeeperLevels = {}
    /\ \A id \in DeeperLevels : tex[id] = "zero"

(* a render that blurred the bloom, the pyramid having deeper levels, after a
   resize *)
BlurredWithDeeperLevels ==
  /\ Len(BlurPasses) = 2
  /\ Len(this.bloomFramebuffers) = BLOOM_ITERATIONS
  /\ this.gen >= 3
  /\ tex[this.bloom.id] = "bloomBlur"
  /\ tex[this.bloomFramebuffers[1].id] = "bloomBlur"

(* the passes of l that sample a dye buffer *)
DyeReaders(l) ==
  {i \in DOMAIN l : l[i].kind = "pass" /\ \E id \in ReadIds(l[i]) : id[2] = "dye"}

SimulationFields == {"velocity", "pressure", "divergence", "curl"}

(* A handler in the frame loop with bloom enabled.
   The render of a tick, after the step and the particles: its composite pass
   writes a dye buffer and dye is swapped, so dye.read is the composite; it
   writes none of velocity, pressure, divergence and curl and swaps none of
   them.  The handler that follows a bloomed frame, a tick or a splat: the first
   pass that samples dye samples the buffer the composite was written to, as
   uSource of the dye advection or as uTarget of the splat. *)
FeedbackStep ==
  /\ (log' # << >> /\ log'[1].kind = "update" /\ this'.config.BLOOM) =>
       \A r \in {i \in DOMAIN log' : log'[i].kind = "render"} :
         /\ \E f \in DOMAIN log' :
              /\ f > r
              /\ log'[f].kind = "pass"
              /\ log'[f].prog = "bloomFinal"
              /\ log'[f].target = this'.dye.read.id
              /\ tex'[this'.dye.read.id] = "bloomFinal"
         /\ \A i \in DOMAIN log' :
              i > r =>
                /\ log'[i].kind = "pass" => log'[i].target[2] \notin SimulationFields
                /\ log'[i].kind = "swap" => log'[i].field = "dye"
         /\ \A i \in DOMAIN log' :
              (log'[i].kind = "pass" /\ log'[i].fn = "step" /\ log'[i].prog = "gradientSubtract")
                => this'.velocity.read.id = log'[i].target
  /\ (/\ log' # << >>
      /\ log'[1].kind \in {"update", "mousedown"}
      /\ this.dye.read.id \in DOMAIN tex
      /\ tex[this.dye.read.id] = "bloomFinal") =>
       /\ DyeReaders(log') # {}
       /\ \A i \in DyeReaders(log') :
            (\A j \in DyeReaders(log') : i <= j) =>
               /\ log'[i].prog = IF log'[1].kind = "update" THEN "advection" ELSE "splat"
               /\ SamplerOf(log'[i], IF log'[1].kind = "update" THEN "uSource" ELSE "uTarget")
                    = {this.dye.read.id}
               /\ [u |-> IF log'[1].kind = "update" THEN "uSource" ELSE "uTarget",
                   by |-> "bloomFinal"] \in log'[i].wrote
               /\ log'[i].target[2] = "dye"

(* C26: with bloom enabled, rendering writes simulation state: the dye buffer
   that the next step's dye advection reads as its source, and the next splat as
   its target, is the composite the previous frame's render wrote; render leaves
   velocity, pressure, divergence and curl, and which of their buffers is read
   and which is written, as they were. *)
BloomFeedsBackIntoDye == [][FeedbackStep]_vars

(* a tick whose dye advection read the composite of the frame before, and a
   splat that did *)
AdvectedTheComposite ==
  /\ log # << >>
  /\ log[1].kind = "update"
  /\ \E i \in DOMAIN log :
       /\ log[i].kind = "pass"
       /\ log[i].prog = "advection"
       /\ log[i].target[2] = "dye"
       /\ [u |-> "uSource", by |-> "bloomFinal"] \in log[i].wrote
  /\ tex[this.dye.read.id] = "bloomFinal"

SplatOnTheComposite ==
  /\ log # << >>
  /\ log[1].kind = "mousedown"
  /\ \E i \in DOMAIN log :
       /\ log[i].kind = "pass"
       /\ log[i].prog = "splat"
       /\ [u |-> "uTarget", by |-> "bloomFinal"] \in log[i].wrote

(* C25 as the specification has it: after every updateParticles call, in any
   sequence of ticks and resizes, the particle's position is within the canvas,
   0 <= x <= canvas.width and 0 <= y <= canvas.height. *)
ParticlesStayInside ==
  (field.kind = "particle" /\ field.last = "updateParticles") =>
    InsideCanvas(field.p, field.canvas)

(* what holds: a particle that is within a canvas of 25.5 pixels or more each
   way is within it after updateParticles *)
ParticlesStayInsideWhenInside ==
  (/\ field.kind = "particle"
   /\ field.last = "updateParticles"
   /\ field.inside
   /\ field.canvas.width * 10 >= MaxByte
   /\ field.canvas.height * 10 >= MaxByte) =>
    InsideCanvas(field.p, field.canvas)

(* a particle beyond the canvas after updateParticles, read outside the velocity
   field *)
ParticleLeftOutside ==
  /\ field.kind = "particle"
  /\ field.last = "updateParticles"
  /\ ~ field.sampled
  /\ field.p.x > field.canvas.width * 10

(* the calls of a handler that reach the GL: a splat, a draw call, a readback *)
GLWork == {i \in DOMAIN log : log[i].kind \in {"splat", "pass", "nodraw", "readPixels", "step"}}

(* C28: nothing is executed on an instance whose constructor did not finish its
   initialisation: when it returned early for want of a WebGL context (or threw
   while building its programs), no handler issues a splat or any pass against
   it, the delayed initial splats of initFluidAnimation included; the GL state,
   the textures and the frame loop stay as they were before construction. *)
NoWorkOnUninitialised ==
  pc \in {"nogl", "aborted"} =>
    /\ GLWork = {}
    /\ gl = NoGL
    /\ tex = << >>
    /\ raf = 0
    /\ this.dye = NoDoubleFBO
    /\ this.velocity = NoDoubleFBO

(* the setTimeout callback has run on an instance that has no WebGL context *)
TimerFiredWithoutContext ==
  /\ pc = "nogl"
  /\ ~ this.gl
  /\ timer = "fired"
  /\ log # << >>
  /\ log[1].kind = "timer"

====
